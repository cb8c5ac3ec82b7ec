---------------------------- MODULE LifecycleProofs ----------------------------
(***************************************************************************)
(* The properties of Lifecycle, proved for any number of jobs, runs and    *)
(* cancellers, any schedule and any faults: first type correctness, whose  *)
(* invariant the others use, then one strengthening per safety property.   *)
(***************************************************************************)
EXTENDS Lifecycle, TLAPS

-------------------------------------------------------------------------------
(* Type correctness.  TypeOK alone is not inductive: a step uses the job   *)
(* and the run that its process holds as keys of the tables, so the        *)
(* invariant also says that they are there (Linked).                       *)

(* A process that works on a job or a run holds an id of the tables, and a *)
(* run row that was never claimed is empty.                                *)
ExecLinked ==
  /\ exec.pc \notin {"idle", "batch"} => exec.job \in Jobs
  /\ exec.pc \in {"mark", "spawn", "fail_run", "fail_job"} =>
       exec.run \in Runs /\ runs[exec.run].job \in Jobs

MonLinked == \A r \in Runs : mon[r].pc # "none" => runs[r].job \in Jobs

RunLinked == \A r \in Runs : runs[r].job = NoJob => runs[r].state = "absent"

CanLinked ==
  \A c \in Cancellers :
    /\ can[c].pc \notin {"new", "done"} => can[c].job \in Jobs
    /\ can[c].pc \notin {"new", "done", "request", "direct"} => can[c].run \in Runs
    /\ can[c].run # NoRun => runs[can[c].run].job \in Jobs

SignalLinked == \A r \in signalled : runs[r].job \in Jobs

Linked == ExecLinked /\ MonLinked /\ RunLinked /\ CanLinked /\ SignalLinked

TypeInv == TypeOK /\ Linked

-------------------------------------------------------------------------------
(* The schedule arithmetic stays in the naturals.                          *)
LEMMA NextFixedRateType ==
  ASSUME NEW anchor \in Nat, NEW at \in Nat, NEW interval \in Nat \ {0}
  PROVE  next_fixed_rate_utc(anchor, at, interval) \in Nat
<1>1. CASE at < anchor
  BY <1>1 DEF next_fixed_rate_utc
<1>2. CASE ~(at < anchor)
  <2>1. at - anchor \in Nat
    BY <1>2
  <2>2. ASSUME NEW n \in Nat PROVE n \div interval \in Nat
    OBVIOUS
  <2>3. (at - anchor) \div interval \in Nat
    BY <2>1, <2>2
  <2>4. ASSUME NEW a \in Nat, NEW b \in Nat PROVE a * b \in Nat
    OBVIOUS
  <2>5. ((at - anchor) \div interval + 1) * interval \in Nat
    BY <2>3, <2>4
  <2> QED
    BY <1>2, <2>5 DEF next_fixed_rate_utc
<1> QED
  BY <1>1, <1>2

(* Initially nothing is stored and nothing runs.                           *)
LEMMA InitTypes == Init => TypeInv
BY JobsAssumption, BoundsAssumption
   DEF Init, StoreInit, SupervisorInit, MonitorInit, CliInit, TypeInv, TypeOK,
       StoreTypeOK, SupervisorTypeOK, MonitorTypeOK, CliTypeOK, JobRow, RunRow,
       JobRowState, JobState, RunRowState, RunState, RunOutcome, Runs, NoRun, NoDue,
       NoFound, NoPlan, Leave, EmptyHeap, Idle, PlanEntry, ExecPc, MonState, MonPc, NoMonitor,
       CanState, CanPc, NotCancelling, Linked, ExecLinked, MonLinked, RunLinked, CanLinked,
       SignalLinked

-------------------------------------------------------------------------------
(* Every step but a claim leaves each run with its job, and deleted or     *)
(* unclaimed rows empty.                                                   *)
RunsKept ==
  \A r \in Runs : /\ runs'[r].job = runs[r].job
                  /\ runs[r].state = "absent" => runs'[r].state = "absent"

(* A step that keeps the runs keeps what links the processes it leaves     *)
(* alone.                                                                  *)
LEMMA KeptLinks ==
  ASSUME TypeInv, RunsKept
  PROVE  /\ RunLinked'
         /\ UNCHANGED exec => ExecLinked'
         /\ UNCHANGED mon => MonLinked'
         /\ UNCHANGED can => CanLinked'
         /\ UNCHANGED signalled => SignalLinked'
<1> USE DEF TypeInv, TypeOK, Linked, RunsKept
<1>1. RunLinked'
  BY DEF RunLinked
<1>2. UNCHANGED exec => ExecLinked'
  BY DEF ExecLinked
<1>3. UNCHANGED mon => MonLinked'
  BY DEF MonLinked
<1>4. UNCHANGED can => CanLinked'
  BY DEF CanLinked, CliTypeOK, CanState, NoRun
<1>5. UNCHANGED signalled => SignalLinked'
  BY DEF SignalLinked, CliTypeOK
<1> QED
  BY <1>1, <1>2, <1>3, <1>4, <1>5

(* A new state and revision make a job row of a job row.                   *)
LEMMA JobUpdate ==
  ASSUME NEW f \in [Jobs -> JobRow], NEW j \in Jobs, NEW to \in JobRowState, NEW n \in Nat
  PROVE  [f EXCEPT ![j].state = to, ![j].rev = n] \in [Jobs -> JobRow]
BY DEF JobRow

(* A transition of a job touches its row alone.                            *)
LEMMA TransitionTypes ==
  ASSUME StoreTypeOK, now' \in Nat, NEW j \in Jobs, NEW rev \in Nat, NEW to \in JobRowState,
         transition_job(j, rev, to)
  PROVE  StoreTypeOK' /\ RunsKept
<1>1. jobs \in [Jobs -> JobRow] /\ rev + 1 \in Nat
  BY DEF StoreTypeOK
<1>2. [jobs EXCEPT ![j].state = to, ![j].rev = rev + 1] \in [Jobs -> JobRow]
  BY <1>1, JobUpdate
<1> QED
  BY <1>2 DEF transition_job, StoreTypeOK, RunsKept

(* The end of a run is a run state, and no row comes or goes.              *)
LEMMA CompleteRunType ==
  ASSUME NEW current \in RunRowState, NEW outcome,
         complete_run(current, outcome) # "illegal"
  PROVE  /\ complete_run(current, outcome) \in RunTerminal
         /\ complete_run(current, outcome) = outcome_state(outcome)
         /\ current \in RunActive
         /\ outcome = "cancelled" => current = "cancel_requested"
BY DEF complete_run, outcome_state, run_transition, RunLegal, RunTerminal, RunActive

LEMMA RecordTypes ==
  ASSUME StoreTypeOK, now' \in Nat, NEW r, NEW outcome, record_run_terminal(r, outcome)
  PROVE  StoreTypeOK' /\ RunsKept
<1>1. CASE r \in Runs
  <2>1. runs[r].state \in RunRowState
    BY <1>1 DEF StoreTypeOK, RunRow
  <2>2. /\ complete_run(runs[r].state, outcome) \in RunTerminal
        /\ runs[r].state \in RunActive
    BY <2>1, CompleteRunType DEF record_run_terminal, CanRecord
  <2>3. runs' \in [Runs -> RunRow]
    BY <1>1, <2>2 DEF record_run_terminal, StoreTypeOK, RunRow, RunRowState, RunState,
                      RunTerminal
  <2>4. RunsKept
    BY <1>1, <2>2 DEF record_run_terminal, StoreTypeOK, RunRow, RunsKept, RunActive
  <2> QED
    BY <2>3, <2>4 DEF record_run_terminal, StoreTypeOK
<1>2. CASE r \notin Runs
  <2>1. runs' = runs
    BY <1>2 DEF record_run_terminal, StoreTypeOK
  <2> QED
    BY <2>1 DEF record_run_terminal, StoreTypeOK, RunsKept
<1> QED
  BY <1>1, <1>2

-------------------------------------------------------------------------------
(* A user submits, runs again or removes a job.                            *)
LEMMA UserStepTypes ==
  ASSUME TypeInv, NEW j \in Jobs, UserStep(j)
  PROVE  TypeInv'
<1> USE JobsAssumption, BoundsAssumption
    DEF TypeInv, TypeOK, Linked, UserStep, supVars, monVars
<1>1. CASE Submit(j)
  <2>1. StoreTypeOK' /\ CliTypeOK'
    BY <1>1 DEF Submit, create, StoreTypeOK, JobRow, JobRowState, JobState, CliTypeOK
  <2>2. SupervisorTypeOK' /\ MonitorTypeOK'
    BY DEF SupervisorTypeOK, MonitorTypeOK
  <2>3. ExecLinked' /\ MonLinked' /\ RunLinked' /\ CanLinked' /\ SignalLinked'
    BY <1>1 DEF Submit, create, ExecLinked, MonLinked, RunLinked, CanLinked, SignalLinked
  <2> QED
    BY <2>1, <2>2, <2>3
<1>2. CASE Rerun(j)
  <2>1. StoreTypeOK' /\ CliTypeOK'
    BY <1>2 DEF Rerun, prepare_rerun, StoreTypeOK, JobRow, JobRowState, JobState, CliTypeOK
  <2>2. SupervisorTypeOK' /\ MonitorTypeOK'
    BY DEF SupervisorTypeOK, MonitorTypeOK
  <2>3. ExecLinked' /\ MonLinked' /\ RunLinked' /\ CanLinked' /\ SignalLinked'
    BY <1>2 DEF Rerun, prepare_rerun, ExecLinked, MonLinked, RunLinked, CanLinked,
                SignalLinked
  <2> QED
    BY <2>1, <2>2, <2>3
<1>3. CASE Remove(j)
  <2> PICK keep \in BOOLEAN : hide_job(j, keep)
    BY <1>3 DEF Remove
  <2>1. UNCHANGED cliVars
    BY <1>3 DEF Remove
  <2>2. \A r \in Runs : runs'[r].job = runs[r].job /\ runs'[r].state \in {runs[r].state, "absent"}
    BY DEF hide_job, StoreTypeOK, RunRow
  <2>3. StoreTypeOK'
    <3>1. jobs' \in [Jobs -> JobRow]
      BY DEF hide_job, StoreTypeOK, JobRow
    <3>2. runs' \in [Runs -> RunRow]
      BY DEF hide_job, StoreTypeOK, RunRow, RunRowState
    <3>3. now' \in Nat /\ permits' \in [Jobs -> Nat] /\ claims' \in [Jobs -> Nat]
      BY DEF hide_job, StoreTypeOK
    <3> QED
      BY <3>1, <3>2, <3>3 DEF StoreTypeOK
  <2>4. SupervisorTypeOK' /\ MonitorTypeOK' /\ CliTypeOK'
    BY <2>1 DEF cliVars, SupervisorTypeOK, MonitorTypeOK, CliTypeOK
  <2>5. ExecLinked' /\ MonLinked' /\ RunLinked' /\ CanLinked' /\ SignalLinked'
    BY <2>1, <2>2 DEF cliVars, ExecLinked, MonLinked, RunLinked, CanLinked, SignalLinked,
                      CliTypeOK, CanState, NoRun, Runs
  <2> QED
    BY <2>3, <2>4, <2>5
<1> QED
  BY <1>1, <1>2, <1>3

(* A submitter's wake is served or given up.                               *)
LEMMA WakeTypes ==
  ASSUME TypeInv, NEW j \in Jobs, ServeWake(j) \/ GiveUpWake(j)
  PROVE  TypeInv'
<1>1. RunsKept /\ UNCHANGED <<exec, mon, can, signalled>> /\ UNCHANGED storeVars
  BY DEF ServeWake, GiveUpWake, WakeEnds, Wake, RunsKept, monVars, supVars, storeVars
<1>2. StoreTypeOK' /\ MonitorTypeOK' /\ CliTypeOK'
  BY DEF TypeInv, TypeOK, ServeWake, GiveUpWake, WakeEnds, storeVars, monVars,
         StoreTypeOK, MonitorTypeOK, CliTypeOK
<1>3. SupervisorTypeOK'
  <2>1. CASE ServeWake(j)
    <3>1. jobs[j].due \in Nat /\ now \in Nat
      BY DEF TypeInv, TypeOK, StoreTypeOK, JobRow
    <3>2. heap' \in [Jobs -> Nat \cup {NoDue}]
      BY <2>1, <3>1 DEF TypeInv, TypeOK, SupervisorTypeOK, ServeWake, Wake,
                         reconcile_wall_schedule
    <3> QED
      BY <2>1, <3>2 DEF TypeInv, TypeOK, SupervisorTypeOK, ServeWake, Wake
  <2>2. CASE GiveUpWake(j)
    BY <2>2 DEF TypeInv, TypeOK, SupervisorTypeOK, GiveUpWake, supVars
  <2> QED
    BY <2>1, <2>2
<1>4. faults' \in Nat /\ dropped' \subseteq Jobs
  BY DEF TypeInv, TypeOK, ServeWake, GiveUpWake
<1>5. Linked'
  BY <1>1, KeptLinks DEF Linked
<1> QED
  BY <1>2, <1>3, <1>4, <1>5 DEF TypeInv, TypeOK

(* A canceller that ends, or moves on while it holds the job and the run   *)
(* that it held, stays well formed.                                        *)
LEMMA CancellerTypes ==
  ASSUME TypeInv, RunsKept, UNCHANGED <<wakes, signalled>>, NEW c \in Cancellers,
         \/ CanEnds(c)
         \/ \E pc \in CanPc : CanGoes(c, pc) /\ (can[c].pc \notin {"new", "done", "request", "direct"})
  PROVE  CliTypeOK' /\ CanLinked'
<1> USE DEF TypeInv, TypeOK, Linked
<1>1. CASE CanEnds(c)
  <2>1. can' = [can EXCEPT ![c] = [NotCancelling EXCEPT !.pc = "done"]]
    BY <1>1 DEF CanEnds
  <2>2. [NotCancelling EXCEPT !.pc = "done"] \in CanState
    BY DEF NotCancelling, CanState, CanPc, RunRowState
  <2>3. CliTypeOK'
    BY <2>1, <2>2 DEF CliTypeOK
  <2>4. CanLinked'
    BY <2>1 DEF CliTypeOK, CanState, CanLinked, NotCancelling, RunsKept, NoRun
  <2> QED
    BY <2>3, <2>4
<1>2. CASE \E pc \in CanPc : CanGoes(c, pc) /\ (can[c].pc \notin {"new", "done", "request", "direct"})
  <2> PICK pc \in CanPc : CanGoes(c, pc) /\ (can[c].pc \notin {"new", "done", "request", "direct"})
    BY <1>2
  <2>1. CliTypeOK'
    BY DEF CliTypeOK, CanGoes, CanState
  <2>2. CanLinked'
    BY DEF CliTypeOK, CanState, CanLinked, CanGoes, RunsKept, NoRun
  <2> QED
    BY <2>1, <2>2
<1> QED
  BY <1>1, <1>2
(* The steps of a canceller on the database.                               *)
LEMMA CancelStoreTypes ==
  ASSUME TypeInv, NEW c \in Cancellers, CancelStoreStep(c)
  PROVE  TypeInv'
<1> USE DEF TypeInv, TypeOK, Linked
<1>f. UNCHANGED <<now, sup, found, wall, plan, heap, exec, mon, cmd, faults, dropped>>
  BY DEF CancelStoreStep, supVars, monVars
<1>c. /\ can[c] \in CanState
      /\ can[c].pc \notin {"new", "done"} => can[c].job \in Jobs
      /\ can[c].pc \notin {"new", "done", "request", "direct"} => can[c].run \in Runs
  BY DEF CliTypeOK, CanLinked
<1> DEFINE G == StoreTypeOK' /\ RunsKept /\ CliTypeOK' /\ CanLinked' /\ UNCHANGED signalled
<1>1. ASSUME NEW j \in Jobs, CancelBegin(c, j) PROVE G
  <2>1. StoreTypeOK' /\ RunsKept /\ UNCHANGED <<wakes, signalled>>
    BY <1>1, <1>f DEF CancelBegin, CanFrame, storeVars, StoreTypeOK, RunsKept
  <2> PICK r \in latest_active_run(j) :
         can' = [can EXCEPT ![c] = [NotCancelling EXCEPT !.pc = "request", !.job = j, !.run = r]]
    BY <1>1 DEF CancelBegin
  <2>2. r \in Runs \cup {NoRun} /\ (r # NoRun => runs[r].job \in Jobs)
    BY DEF latest_active_run, ActiveRuns, RunsOf
  <2>3. [NotCancelling EXCEPT !.pc = "request", !.job = j, !.run = r] \in CanState
    BY <2>2 DEF NotCancelling, CanState, CanPc, RunRowState
  <2>4. CliTypeOK'
    BY <2>1, <2>3 DEF CliTypeOK
  <2>5. CanLinked'
    BY <2>1, <2>2 DEF CliTypeOK, CanState, CanLinked, NotCancelling, RunsKept, NoRun
  <2> QED
    BY <2>1, <2>4, <2>5
<1>2. ASSUME CancelRequest(c) PROVE G
  <2> DEFINE j == can[c].job
             pc == IF can[c].run = NoRun THEN "direct" ELSE "check"
  <2>1. j \in Jobs /\ jobs[j].rev \in Nat
    BY <1>2, <1>c DEF CancelRequest, StoreTypeOK, JobRow
  <2>2. StoreTypeOK' /\ RunsKept
    <3>1. transition_job(j, jobs[j].rev, "cancel_requested") /\ now' \in Nat
      BY <1>2, <1>f DEF CancelRequest, StoreTypeOK
    <3> QED
      BY <2>1, <3>1, TransitionTypes DEF JobRowState, JobState
  <2>3. UNCHANGED <<wakes, signalled>> /\ can[c].pc = "request"
    BY <1>2 DEF CancelRequest, CanFrame
  <2>4. can' = [can EXCEPT ![c].pc = pc, ![c].rev = jobs[j].rev + 1]
    BY <1>2 DEF CancelRequest
  <2>5. [can[c] EXCEPT !.pc = pc, !.rev = jobs[j].rev + 1] \in CanState
    <3>1. ASSUME NEW s \in CanState, NEW p \in CanPc, NEW n \in Nat
          PROVE  [s EXCEPT !.pc = p, !.rev = n] \in CanState
      BY DEF CanState
    <3>2. pc \in CanPc /\ jobs[j].rev + 1 \in Nat
      BY <2>1 DEF CanPc
    <3> QED
      BY <1>c, <3>1, <3>2
  <2>6. CliTypeOK'
    BY <2>3, <2>4, <2>5 DEF CliTypeOK
  <2>7. CanLinked'
    BY <1>c, <2>1, <2>2, <2>3, <2>4 DEF CliTypeOK, CanState, CanLinked, RunsKept, NoRun
  <2> QED
    BY <2>2, <2>3, <2>6, <2>7
<1>3. ASSUME CanEnds(c), CanFrame, UNCHANGED storeVars PROVE G
  <2>1. StoreTypeOK' /\ RunsKept /\ UNCHANGED <<wakes, signalled>>
    BY <1>3, <1>f DEF CanFrame, storeVars, StoreTypeOK, RunsKept
  <2> QED
    BY <1>3, <2>1, CancellerTypes
<1>4. ASSUME NEW pc \in CanPc, CanGoes(c, pc), CanFrame, UNCHANGED storeVars,
             can[c].pc \notin {"new", "done", "request", "direct"}
      PROVE  G
  <2>1. StoreTypeOK' /\ RunsKept /\ UNCHANGED <<wakes, signalled>>
    BY <1>4, <1>f DEF CanFrame, storeVars, StoreTypeOK, RunsKept
  <2> QED
    BY <1>4, <2>1, CancellerTypes
<1>5. ASSUME NEW pc \in CanPc, NEW s \in RunRowState,
             can' = [can EXCEPT ![c].pc = pc, ![c].previous = s], CanFrame,
             UNCHANGED storeVars, can[c].pc \notin {"new", "done", "request", "direct"}
      PROVE  G
  <2>1. StoreTypeOK' /\ RunsKept /\ UNCHANGED <<wakes, signalled>>
    BY <1>5, <1>f DEF CanFrame, storeVars, StoreTypeOK, RunsKept
  <2>2. [can[c] EXCEPT !.pc = pc, !.previous = s] \in CanState
    <3>1. ASSUME NEW q \in CanState PROVE [q EXCEPT !.pc = pc, !.previous = s] \in CanState
      BY DEF CanState
    <3> QED
      BY <1>c, <3>1
  <2>3. CliTypeOK'
    BY <1>5, <2>1, <2>2 DEF CliTypeOK
  <2>4. CanLinked'
    BY <1>c, <1>5, <2>1 DEF CliTypeOK, CanState, CanLinked, RunsKept, NoRun
  <2> QED
    BY <2>1, <2>3, <2>4
<1>6. ASSUME CancelMoot(c) \/ CancelDirectRefused(c) \/ CancelCommitRefused(c)
             \/ CancelRecordRefused(c) \/ CancelTimeout(c) \/ CancelFinishMoot(c)
      PROVE  G
  BY <1>3, <1>6 DEF CancelMoot, CancelDirectRefused, CancelCommitRefused,
                    CancelRecordRefused, CancelTimeout, CancelFinishMoot
<1>7. ASSUME CancelDirect(c) PROVE G
  <2>1. can[c].job \in Jobs /\ can[c].rev \in Nat /\ now' \in Nat
    BY <1>7, <1>c, <1>f DEF CancelDirect, CanState, StoreTypeOK
  <2>2. StoreTypeOK' /\ RunsKept
    BY <1>7, <2>1, TransitionTypes DEF CancelDirect, JobRowState, JobState
  <2> QED
    BY <1>7, <2>2, CancellerTypes DEF CancelDirect, CanFrame
<1>8. ASSUME CancelCheck(c) PROVE G
  BY <1>3, <1>4, <1>8 DEF CancelCheck, CanPc
<1>9. ASSUME CancelLoad(c) PROVE G
  <2>1. runs[can[c].run].state \in RunRowState
    BY <1>9, <1>c DEF CancelLoad, StoreTypeOK, RunRow
  <2> QED
    BY <1>3, <1>4, <1>5, <1>9, <2>1 DEF CancelLoad, CanPc, AfterCommit
<1>10. ASSUME CancelCommit(c) PROVE G
  <2> DEFINE r == can[c].run
  <2>1. r \in Runs /\ request_run_cancellation(r, can[c].previous)
    BY <1>10, <1>c DEF CancelCommit
  <2>2. StoreTypeOK' /\ RunsKept
    <3>1. runs' \in [Runs -> RunRow]
      BY <2>1 DEF request_run_cancellation, StoreTypeOK, RunRow, RunRowState, RunState
    <3>2. RunsKept
      BY <2>1 DEF request_run_cancellation, StoreTypeOK, RunRow, RunsKept, RunActive
    <3> QED
      BY <1>f, <2>1, <3>1, <3>2 DEF request_run_cancellation, StoreTypeOK
  <2>3. \E pc \in CanPc : CanGoes(c, pc)
    BY <1>10 DEF CancelCommit, AfterCommit, CanPc
  <2> QED
    BY <1>10, <2>2, <2>3, CancellerTypes DEF CancelCommit, CanFrame
<1>11. ASSUME CancelRecord(c) PROVE G
  <2>1. StoreTypeOK' /\ RunsKept
    BY <1>11, <1>f, RecordTypes DEF CancelRecord, StoreTypeOK
  <2> QED
    BY <1>11, <2>1, CancellerTypes DEF CancelRecord, CanFrame, CanPc
<1>12. ASSUME CancelPoll(c) PROVE G
  <2>1. runs[can[c].run].state \in RunRowState
    BY <1>12, <1>c DEF CancelPoll, StoreTypeOK, RunRow
  <2> QED
    BY <1>5, <1>12, <2>1 DEF CancelPoll, CanPc
<1>13. ASSUME CancelFinish(c) PROVE G
  <2> DEFINE j == can[c].job
  <2>1. j \in Jobs /\ jobs[j].rev \in Nat /\ can[c].previous \in JobRowState /\ now' \in Nat
    BY <1>13, <1>c, <1>f DEF CancelFinish, StoreTypeOK, JobRow, CanState, RunRowState, RunState,
                             JobRowState, JobState
  <2>2. StoreTypeOK' /\ RunsKept
    BY <1>13, <2>1, TransitionTypes DEF CancelFinish
  <2> QED
    BY <1>13, <2>2, CancellerTypes DEF CancelFinish, CanFrame
<1>14. G
  BY <1>1, <1>2, <1>6, <1>7, <1>8, <1>9, <1>10, <1>11, <1>12, <1>13 DEF CancelStoreStep
<1>15. SupervisorTypeOK' /\ MonitorTypeOK' /\ faults' \in Nat /\ dropped' \subseteq Jobs
  BY <1>f DEF SupervisorTypeOK, MonitorTypeOK
<1> QED
  BY <1>f, <1>14, <1>15, KeptLinks

(* The steps of a canceller on the command, and its death.                 *)
LEMMA CancelSignalTypes ==
  ASSUME TypeInv, NEW c \in Cancellers, CancelSignal(c) \/ CancelKill(c) \/ CancelFault(c)
  PROVE  TypeInv'
<1> USE DEF TypeInv, TypeOK, Linked
<1>1. /\ can[c].pc \notin {"new", "done", "request", "direct"} => can[c].run \in Runs
      /\ can[c].run # NoRun => runs[can[c].run].job \in Jobs
  BY DEF CanLinked
<1>2. RunsKept /\ UNCHANGED <<storeVars, now, sup, found, wall, plan, heap, exec, mon, dropped, wakes>>
  BY DEF CancelSignal, CancelKill, CancelFault, CancelAbort, CanFrame, RunsKept, storeVars,
         supVars, monVars
<1>3. StoreTypeOK' /\ SupervisorTypeOK' /\ dropped' \subseteq Jobs /\ faults' \in Nat
  BY <1>2 DEF StoreTypeOK, SupervisorTypeOK, storeVars, CancelSignal, CancelKill, CancelFault,
              Fault
<1>4. MonitorTypeOK'
  <2>1. cmd' \in [Runs -> {"none", "alive", "ok", "bad"}]
    BY DEF MonitorTypeOK, CancelSignal, CancelKill, CancelFault, Kill, monVars
  <2> QED
    BY <1>2, <2>1 DEF MonitorTypeOK
<1>5. CliTypeOK' /\ CanLinked' /\ SignalLinked'
  <2>1. CASE CancelSignal(c)
    <3>1. can[c].run \in Runs /\ signalled' \in {signalled, signalled \cup {can[c].run}}
      BY <1>1, <2>1 DEF CancelSignal
    <3>2. SignalLinked' /\ signalled' \subseteq Runs
      BY <1>1, <1>2, <3>1 DEF SignalLinked, CliTypeOK, storeVars, NoRun, Runs
    <3>3. can' \in [Cancellers -> CanState]
      BY <2>1 DEF CancelSignal, CanGoes, CliTypeOK, CanState, CanPc
    <3>4. CanLinked'
      BY <1>2, <2>1 DEF CancelSignal, CanGoes, CliTypeOK, CanState, CanLinked, storeVars
    <3> QED
      BY <1>2, <3>2, <3>3, <3>4 DEF CliTypeOK
  <2>2. CASE CancelKill(c) \/ CancelFault(c)
    <3>1. UNCHANGED signalled
      BY <2>2 DEF CancelKill, CancelFault, CancelAbort, CanFrame
    <3>2. CliTypeOK' /\ CanLinked'
      BY <1>2, <2>2, <3>1, CancellerTypes DEF CancelKill, CancelFault, CancelAbort, CanPc
    <3> QED
      BY <1>2, <3>1, <3>2, KeptLinks
  <2> QED
    BY <2>1, <2>2
<1> QED
  BY <1>2, <1>3, <1>4, <1>5, KeptLinks

-------------------------------------------------------------------------------
(* A monitor that exits, or goes on from where it was, stays well formed.  *)
LEMMA MonitorGoesTypes ==
  ASSUME MonitorTypeOK, NEW r \in Runs,
         Exits(r) \/ \E pc \in MonPc : Goes(r, pc)
  PROVE  /\ mon' \in [Runs -> MonState]
         /\ \A q \in Runs \ {r} : mon'[q] = mon[q]
<1>1. CASE Exits(r)
  <2>1. Exited \in MonState
    BY DEF Exited, NoMonitor, MonState, MonPc, RunOutcome, RunRowState, JobRowState
  <2> QED
    BY <1>1, <2>1 DEF Exits, MonitorTypeOK
<1>2. CASE \E pc \in MonPc : Goes(r, pc)
  BY <1>2 DEF Goes, MonitorTypeOK, MonState
<1> QED
  BY <1>1, <1>2

(* What the commands of the system are in, whatever a step does to one.    *)
LEMMA CommandTypes ==
  ASSUME MonitorTypeOK, NEW r \in Runs,
         \/ UNCHANGED cmd
         \/ Kill(r)
         \/ \E fate \in {"none", "alive", "ok", "bad"} : cmd' = [cmd EXCEPT ![r] = fate]
  PROVE  cmd' \in [Runs -> {"none", "alive", "ok", "bad"}]
BY DEF MonitorTypeOK, Kill

(* A recurring job that advances.                                          *)
LEMMA AdvanceTypes ==
  ASSUME StoreTypeOK, now' \in Nat, NEW j \in Jobs, NEW rev \in Nat, NEW clock \in Nat,
         advance_recurring_job(j, rev, clock)
  PROVE  StoreTypeOK' /\ RunsKept
<1> DEFINE due == next_fixed_rate_utc(jobs[j].anchor, clock, Interval)
<1>1. due \in Nat
  BY NextFixedRateType, JobsAssumption DEF StoreTypeOK, JobRow
<1>2. ASSUME NEW f \in [Jobs -> JobRow], NEW n \in Nat, NEW d \in Nat
      PROVE  [f EXCEPT ![j].state = "waiting", ![j].rev = n, ![j].due = d] \in [Jobs -> JobRow]
  BY DEF JobRow, JobRowState, JobState
<1>3. [jobs EXCEPT ![j].state = "waiting", ![j].rev = rev + 1, ![j].due = due]
        \in [Jobs -> JobRow]
  <2> HIDE DEF due
  <2>1. rev + 1 \in Nat /\ jobs \in [Jobs -> JobRow]
    BY DEF StoreTypeOK
  <2> QED
    BY <1>1, <1>2, <2>1
<1> QED
  BY <1>3 DEF advance_recurring_job, StoreTypeOK, RunsKept

(* The steps of a monitor that change its own state alone.                 *)
LEMMA MonitorStepTypes ==
  ASSUME TypeInv, NEW r \in Runs, MonitorStep(r)
  PROVE  TypeInv'
<1> USE DEF TypeInv, TypeOK, Linked
<1>f. UNCHANGED <<now, sup, found, wall, plan, heap, exec, can, wakes, signalled, faults, dropped>>
  BY DEF MonitorStep, supVars, cliVars
<1>m. /\ mon[r] \in MonState /\ runs[r] \in RunRow
      /\ mon[r].pc # "none" => runs[r].job \in Jobs
  BY DEF MonitorTypeOK, StoreTypeOK, MonLinked
<1> DEFINE G == /\ StoreTypeOK' /\ RunsKept /\ mon' \in [Runs -> MonState]
                /\ cmd' \in [Runs -> {"none", "alive", "ok", "bad"}]
                /\ \A q \in Runs \ {r} : mon'[q] = mon[q]
                /\ mon[r].pc # "none"
<1>s. UNCHANGED storeVars => StoreTypeOK' /\ RunsKept
  BY <1>f DEF storeVars, StoreTypeOK, RunsKept
<1>1. ASSUME MonLoad(r) \/ MonSpawn(r) \/ MonMarkRefused(r) \/ MonReapLost(r)
             \/ MonRecordRefused(r) \/ MonFinishRefused(r)
      PROVE  G
  <2>1. /\ UNCHANGED storeVars
        /\ Exits(r) \/ \E pc \in MonPc : Goes(r, pc)
        /\ mon[r].pc # "none"
    BY <1>1 DEF MonLoad, MonSpawn, MonMarkRefused, MonReapLost, MonRecordRefused,
                MonFinishRefused, MonPc
  <2>2. \/ UNCHANGED cmd
        \/ Kill(r)
        \/ \E fate \in {"none", "alive", "ok", "bad"} : cmd' = [cmd EXCEPT ![r] = fate]
    BY <1>1 DEF MonLoad, MonSpawn, MonMarkRefused, MonReapLost, MonRecordRefused,
                MonFinishRefused
  <2> QED
    BY <1>s, <2>1, <2>2, MonitorGoesTypes, CommandTypes
<1>2. ASSUME MonMark(r) PROVE G
  <2>1. runs' \in [Runs -> RunRow] /\ RunsKept
    BY <1>2 DEF MonMark, mark_run_running, CanMark, StoreTypeOK, RunRow, RunRowState,
                RunState, RunsKept
  <2>2. StoreTypeOK'
    BY <1>2, <1>f, <2>1 DEF MonMark, mark_run_running, StoreTypeOK
  <2> QED
    BY <1>2, <2>1, <2>2, MonitorGoesTypes, CommandTypes DEF MonMark, MonPc
<1>3. ASSUME MonReap(r) PROVE G
  <2>1. PICK out \in RunOutcome : mon' = [mon EXCEPT ![r].pc = "record", ![r].out = out]
    BY <1>3 DEF MonReap, completion_outcome, RunOutcome
  <2>2. mon' \in [Runs -> MonState]
    BY <2>1 DEF MonitorTypeOK, MonState, MonPc
  <2> QED
    BY <1>3, <1>s, <2>1, <2>2 DEF MonReap, MonitorTypeOK
<1>4. ASSUME MonRecord(r) PROVE G
  <2>1. StoreTypeOK' /\ RunsKept
    BY <1>4, <1>f, RecordTypes DEF MonRecord, StoreTypeOK
  <2>2. outcome_state(mon[r].out) \in RunRowState
    BY DEF outcome_state, RunRowState, RunState
  <2>3. mon' \in [Runs -> MonState]
    BY <1>4, <2>2 DEF MonRecord, MonitorTypeOK, MonState, MonPc
  <2> QED
    BY <1>4, <2>1, <2>3 DEF MonRecord, MonitorTypeOK
<1>5. ASSUME NEW pc \in MonPc, mon' = [mon EXCEPT ![r] = [NoMonitor EXCEPT !.pc = pc]]
      PROVE  mon' \in [Runs -> MonState] /\ \A q \in Runs \ {r} : mon'[q] = mon[q]
  <2>1. [NoMonitor EXCEPT !.pc = pc] \in MonState
    BY DEF NoMonitor, MonState, RunOutcome, RunRowState, JobRowState
  <2> QED
    BY <1>5, <2>1 DEF MonitorTypeOK
<1>6. AfterFinish(r) \in MonPc
  BY DEF AfterFinish, MonPc
<1>7. ASSUME MonLoadJob(r) PROVE G
  <2> DEFINE job == jobs[runs[r].job]
  <2>1. job \in JobRow /\ ClockRead(r) \in Nat
    BY <1>7, <1>m DEF MonLoadJob, StoreTypeOK, ClockRead
  <2>2. mon' \in [Runs -> MonState] /\ \A q \in Runs \ {r} : mon'[q] = mon[q]
    <3>1. CASE job.state = "absent"
      BY <1>7, <3>1, MonitorGoesTypes DEF MonLoadJob
    <3>2. CASE job.state \in JobTerminal
      BY <1>5, <1>6, <1>7, <3>2 DEF MonLoadJob, JobTerminal
    <3>3. CASE job.state \notin JobTerminal \cup {"absent"}
      <4>1. mon' = [mon EXCEPT ![r].pc = "finish", ![r].rev = job.rev,
                               ![r].state = job.state, ![r].clock = ClockRead(r)]
        BY <1>7, <3>3 DEF MonLoadJob
      <4>2. job.rev \in Nat /\ job.state \in JobRowState
        BY <2>1 DEF JobRow
      <4>3. ASSUME NEW s \in JobRowState, NEW n \in Nat, NEW t \in Nat, NEW m \in MonState
            PROVE  [m EXCEPT !.pc = "finish", !.rev = n, !.state = s, !.clock = t] \in MonState
        BY DEF MonState, MonPc
      <4>4. [mon[r] EXCEPT !.pc = "finish", !.rev = job.rev, !.state = job.state,
                           !.clock = ClockRead(r)] \in MonState
        BY <1>m, <2>1, <4>2, <4>3
      <4> QED
        BY <4>1, <4>4 DEF MonitorTypeOK
    <3> QED
      BY <3>1, <3>2, <3>3
  <2> QED
    BY <1>7, <1>s, <2>2 DEF MonLoadJob, MonitorTypeOK
<1>8. ASSUME MonFinish(r) PROVE G
  <2>1. runs[r].job \in Jobs /\ mon[r].rev \in Nat /\ mon[r].clock \in Nat /\ now' \in Nat
    BY <1>8, <1>m, <1>f DEF MonFinish, MonState, StoreTypeOK
  <2>2. FinishTarget(r) \in JobRowState
    BY <1>m DEF FinishTarget, MonState, RunRowState, RunState, JobRowState, JobState
  <2>3. StoreTypeOK' /\ RunsKept
    BY <1>8, <2>1, <2>2, TransitionTypes, AdvanceTypes DEF MonFinish
  <2>4. mon' \in [Runs -> MonState] /\ \A q \in Runs \ {r} : mon'[q] = mon[q]
    BY <1>5, <1>6, <1>8 DEF MonFinish
  <2> QED
    BY <1>8, <2>3, <2>4 DEF MonFinish, MonitorTypeOK
<1>9. G
  BY <1>1, <1>2, <1>3, <1>4, <1>7, <1>8 DEF MonitorStep
<1>10. MonLinked'
  BY <1>9, <1>m DEF MonLinked, RunsKept
<1>11. SupervisorTypeOK' /\ CliTypeOK' /\ faults' \in Nat /\ dropped' \subseteq Jobs
  BY <1>f DEF SupervisorTypeOK, CliTypeOK
<1> QED
  BY <1>9, <1>10, <1>11, <1>f, KeptLinks DEF MonitorTypeOK

(* Commands that end, monitors that fail or wake the supervisor.           *)
LEMMA MonitorRestTypes ==
  ASSUME TypeInv, NEW r \in Runs, CommandStep(r) \/ MonWake(r) \/ MonitorFault(r)
  PROVE  TypeInv'
<1> USE DEF TypeInv, TypeOK, Linked
<1>1. /\ UNCHANGED <<jobs, runs, permits, claims, now>>
      /\ UNCHANGED <<sup, found, wall, plan, exec>>
      /\ UNCHANGED <<can, wakes, signalled>>
  BY DEF CommandStep, CommandExit, MonWake, Wake, MonitorFault, MonSetupError, MonOutputError,
         MonCrash, storeVars, supVars, cliVars
<1>2. StoreTypeOK' /\ CliTypeOK' /\ RunsKept /\ faults' \in Nat
  BY <1>1 DEF StoreTypeOK, CliTypeOK, RunsKept, CommandStep, MonWake, MonitorFault, Fault
<1>3. /\ mon' \in [Runs -> MonState]
      /\ \A q \in Runs \ {r} : mon'[q] = mon[q]
      /\ UNCHANGED mon \/ mon[r].pc # "none"
  <2>1. CASE CommandStep(r)
    BY <2>1 DEF CommandStep, CommandExit, MonitorTypeOK
  <2>2. CASE MonWake(r) \/ MonCrash(r)
    BY <2>2, MonitorGoesTypes DEF MonWake, MonCrash, LiveMonitors
  <2>3. CASE MonSetupError(r) \/ MonOutputError(r)
    <3>1. mon' = [mon EXCEPT ![r].pc = "record", ![r].out = "failure"] /\ mon[r].pc # "none"
      BY <2>3 DEF MonSetupError, MonOutputError
    <3>2. ASSUME NEW m \in MonState
          PROVE  [m EXCEPT !.pc = "record", !.out = "failure"] \in MonState
      BY DEF MonState, MonPc, RunOutcome
    <3>3. mon' \in [Runs -> MonState]
      BY <3>1, <3>2 DEF MonitorTypeOK
    <3> QED
      BY <3>1, <3>3 DEF MonitorTypeOK
  <2> QED
    BY <2>1, <2>2, <2>3 DEF MonitorFault
<1>4. MonitorTypeOK' /\ MonLinked'
  <2>1. \/ UNCHANGED cmd
        \/ Kill(r)
        \/ \E fate \in {"none", "alive", "ok", "bad"} : cmd' = [cmd EXCEPT ![r] = fate]
    BY DEF CommandStep, CommandExit, MonWake, MonitorFault, MonSetupError, MonOutputError,
           MonCrash
  <2>2. MonitorTypeOK'
    BY <1>3, <2>1, CommandTypes DEF MonitorTypeOK
  <2>3. MonLinked'
    BY <1>1, <1>3 DEF MonLinked
  <2> QED
    BY <2>2, <2>3
<1>5. SupervisorTypeOK'
  <2>1. CASE MonWake(r) /\ ~UNCHANGED heap
    <3>1. runs[r].job \in Jobs
      BY <2>1 DEF MonWake, MonLinked
    <3>2. jobs[runs[r].job].due \in Nat /\ now \in Nat
      BY <3>1 DEF StoreTypeOK, JobRow
    <3>3. heap' \in [Jobs -> Nat \cup {NoDue}]
      BY <2>1, <3>1, <3>2 DEF SupervisorTypeOK, MonWake, Wake, reconcile_wall_schedule, supVars
    <3> QED
      BY <1>1, <3>3 DEF SupervisorTypeOK
  <2>2. CASE UNCHANGED heap
    BY <1>1, <2>2 DEF SupervisorTypeOK
  <2> QED
    BY <2>1, <2>2 DEF CommandStep, MonitorFault, supVars
<1>6. dropped' \subseteq Jobs
  <2>1. mon[r].pc = "wake" => runs[r].job \in Jobs
    BY DEF MonLinked
  <2> QED
    BY <2>1 DEF CommandStep, MonWake, MonitorFault
<1> QED
  BY <1>1, <1>2, <1>4, <1>5, <1>6, KeptLinks

-------------------------------------------------------------------------------
(* A supervisor that stops leaves a well-formed initial one behind.        *)
LEMMA StoppedTypes ==
  ASSUME Stopped
  PROVE  SupervisorTypeOK' /\ ExecLinked'
BY DEF Stopped, SupervisorTypeOK, ExecLinked, NoFound, NoPlan, Leave, EmptyHeap, Idle, RunRow,
       RunRowState, PlanEntry, ExecPc

(* The plan of a recovery is well formed.                                  *)
LEMMA PlanTypes ==
  ASSUME TypeInv, NEW alive
  PROVE  plan_recovery(alive) \in [Jobs -> PlanEntry]
<1> USE DEF TypeInv, TypeOK
<1>0. Leave \in PlanEntry
  BY DEF Leave, PlanEntry
<1>1. ASSUME NEW j \in Jobs PROVE reconcile_active(j, alive) \in PlanEntry
  <2> DEFINE act == FoundRuns(j)
             run == IF act = {} THEN NoRun ELSE CHOOSE r \in act : TRUE
  <2>1. run \in Runs \cup {NoRun}
    BY DEF FoundRuns
  <2>2. jobs[j].rev \in Nat
    BY DEF StoreTypeOK, JobRow
  <2>3. ASSUME NEW n \in Nat, NEW q \in Runs \cup {NoRun}
        PROVE  [Leave EXCEPT !.act = "interrupt", !.rev = n, !.run = q] \in PlanEntry
    BY DEF Leave, PlanEntry
  <2>4. [Leave EXCEPT !.act = "interrupt", !.rev = jobs[j].rev, !.run = run] \in PlanEntry
    BY <2>1, <2>2, <2>3
  <2> QED
    BY <1>0, <2>4 DEF reconcile_active, interrupt_action
<1>2. ASSUME NEW j \in Jobs PROVE reconcile_waiting(j) \in PlanEntry
  <2> DEFINE after == next_fixed_rate_utc(jobs[j].anchor, wall, Interval)
  <2>1. jobs[j].rev \in Nat /\ jobs[j].due \in Nat /\ wall \in Nat
    BY DEF StoreTypeOK, JobRow, SupervisorTypeOK
  <2>2. after \in Nat
    BY <2>1, NextFixedRateType, JobsAssumption DEF StoreTypeOK, JobRow
  <2>3. ASSUME NEW n \in Nat, NEW d \in Nat, NEW at \in Nat
        PROVE  /\ [Leave EXCEPT !.at = at] \in PlanEntry
               /\ [Leave EXCEPT !.act = "missed", !.rev = n] \in PlanEntry
               /\ [Leave EXCEPT !.act = "advance", !.rev = n, !.next = d, !.at = at] \in PlanEntry
    BY DEF Leave, PlanEntry
  <2> HIDE DEF after
  <2>4. /\ [Leave EXCEPT !.at = jobs[j].due] \in PlanEntry
        /\ [Leave EXCEPT !.at = wall] \in PlanEntry
        /\ [Leave EXCEPT !.act = "missed", !.rev = jobs[j].rev] \in PlanEntry
        /\ [Leave EXCEPT !.act = "advance", !.rev = jobs[j].rev, !.next = after, !.at = wall]
             \in PlanEntry
        /\ [Leave EXCEPT !.act = "advance", !.rev = jobs[j].rev, !.next = after, !.at = after]
             \in PlanEntry
    BY <2>1, <2>2, <2>3
  <2> QED
    BY <2>4 DEF reconcile_waiting, deadline, after
<1> QED
  BY <1>0, <1>1, <1>2 DEF plan_recovery

(* The rows after a recovery: runs keep their jobs, jobs their shape.      *)
LEMMA ApplyTypes ==
  ASSUME TypeInv, now' \in Nat, apply_recovery
  PROVE  StoreTypeOK' /\ RunsKept
<1> USE DEF TypeInv, TypeOK
<1>1. ASSUME NEW j \in Jobs PROVE Recovered(j) \in JobRow
  <2>1. jobs[j] \in JobRow /\ plan[j] \in PlanEntry
    BY DEF StoreTypeOK, SupervisorTypeOK
  <2>2. jobs[j].rev + 1 \in Nat /\ plan[j].next \in Nat
    BY <2>1 DEF JobRow, PlanEntry
  <2>3. ASSUME NEW row \in JobRow, NEW n \in Nat, NEW d \in Nat
        PROVE  /\ [row EXCEPT !.state = "interrupted", !.rev = n] \in JobRow
               /\ [row EXCEPT !.state = "missed", !.rev = n] \in JobRow
               /\ [row EXCEPT !.due = d, !.rev = n] \in JobRow
    BY DEF JobRow, JobRowState, JobState
  <2>4. /\ [jobs[j] EXCEPT !.state = "interrupted", !.rev = jobs[j].rev + 1] \in JobRow
        /\ [jobs[j] EXCEPT !.state = "missed", !.rev = jobs[j].rev + 1] \in JobRow
        /\ [jobs[j] EXCEPT !.due = plan[j].next, !.rev = jobs[j].rev + 1] \in JobRow
    BY <2>1, <2>2, <2>3
  <2> QED
    BY <2>1, <2>4 DEF Recovered
<1>2. jobs' \in [Jobs -> JobRow]
  BY <1>1 DEF apply_recovery
<1>3. runs' \in [Runs -> RunRow]
  BY DEF apply_recovery, StoreTypeOK, RunRow, RunRowState, RunState
<1>4. RunsKept
  <2> SUFFICES ASSUME NEW r \in Runs
               PROVE  /\ runs'[r].job = runs[r].job
                      /\ runs[r].state = "absent" => runs'[r].state = "absent"
    BY DEF RunsKept
  <2>1. runs[r] \in RunRow
    BY DEF StoreTypeOK
  <2>2. CASE \E j \in Jobs : plan[j].act = "interrupt" /\ plan[j].run = r
    <3>1. r # NoRun
      BY BoundsAssumption DEF Runs, NoRun
    <3>2. runs[r].state \in RunActive
      BY <2>2, <3>1 DEF apply_recovery, StillValid
    <3> QED
      BY <2>1, <2>2, <3>2 DEF apply_recovery, RunActive, RunRow
  <2>3. CASE ~ \E j \in Jobs : plan[j].act = "interrupt" /\ plan[j].run = r
    BY <2>3 DEF apply_recovery
  <2> QED
    BY <2>2, <2>3
<1> QED
  BY <1>2, <1>3, <1>4 DEF apply_recovery, StoreTypeOK

(* The rows after a cleanup.                                               *)
LEMMA CleanupTypes ==
  ASSUME TypeInv, now' \in Nat, NEW oldRuns, NEW oldJobs, cleanup_retention(oldRuns, oldJobs)
  PROVE  StoreTypeOK' /\ RunsKept
<1> USE DEF TypeInv, TypeOK
<1>1. jobs' \in [Jobs -> JobRow]
  BY DEF cleanup_retention, StoreTypeOK, JobRow, JobRowState
<1>2. runs' \in [Runs -> RunRow] /\ RunsKept
  BY DEF cleanup_retention, StoreTypeOK, RunRow, RunRowState, RunsKept
<1> QED
  BY <1>1, <1>2 DEF cleanup_retention, StoreTypeOK

(* The type of the execution's state, and how its fields may be replaced.  *)
ExecState ==
  [pc : ExecPc, job : Jobs \cup {NoJob}, rev : Nat, due : Nat, run : Runs \cup {NoRun},
   batch : SUBSET Jobs, failed : SUBSET Jobs]

LEMMA ExecEndTypes ==
  ASSUME TypeInv,
         \/ Done
         \/ Failed /\ exec.pc \notin {"idle", "batch"}
  PROVE  exec' \in ExecState /\ ExecLinked'
<1> USE DEF TypeInv, TypeOK, Linked
<1>1. exec.batch \subseteq Jobs /\ exec.failed \subseteq Jobs
  BY DEF SupervisorTypeOK
<1>2. ASSUME NEW b \in SUBSET Jobs, NEW f \in SUBSET Jobs
      PROVE  /\ [Idle EXCEPT !.pc = "batch", !.batch = b, !.failed = f] \in ExecState
             /\ [Idle EXCEPT !.pc = "batch", !.batch = b, !.failed = f].pc = "batch"
  BY DEF Idle, ExecState, ExecPc
<1>3. exec.pc \notin {"idle", "batch"} => exec.job \in Jobs
  BY DEF ExecLinked
<1>4. CASE Done
  <2>1. exec' \in ExecState /\ exec'.pc = "batch"
    BY <1>1, <1>2, <1>4 DEF Done
  <2> QED
    BY <2>1 DEF ExecLinked
<1>5. CASE Failed /\ exec.pc \notin {"idle", "batch"}
  <2>1. exec.failed \cup {exec.job} \in SUBSET Jobs
    BY <1>1, <1>3, <1>5
  <2>2. exec' \in ExecState /\ exec'.pc = "batch"
    BY <1>1, <1>2, <1>5, <2>1 DEF Failed
  <2> QED
    BY <2>2 DEF ExecLinked
<1> QED
  BY <1>4, <1>5

(* Recovery, the due batch and the due execution.                          *)
LEMMA RecoveryTypes ==
  ASSUME TypeInv, UNCHANGED <<now, mon, cmd, can, wakes, signalled>>,
         \/ LoadActiveRuns /\ UNCHANGED storeVars
         \/ RefuseRecovery /\ UNCHANGED storeVars
         \/ PlanRecovery(LiveMonitors) /\ UNCHANGED storeVars
         \/ ApplyRecovery \/ RecoveryConflict \/ CleanupRecovery
         \/ Stopped /\ UNCHANGED storeVars
  PROVE  StoreTypeOK' /\ RunsKept /\ SupervisorTypeOK' /\ ExecLinked'
<1> USE DEF TypeInv, TypeOK, Linked
<1>s. UNCHANGED storeVars => StoreTypeOK' /\ RunsKept
  BY DEF storeVars, StoreTypeOK, RunsKept
<1>x. RunsKept /\ UNCHANGED exec => ExecLinked'
  BY KeptLinks
<1>1. ASSUME LoadActiveRuns, UNCHANGED storeVars
      PROVE  SupervisorTypeOK' /\ UNCHANGED exec
  <2>1. found' \in [Runs -> RunRow]
    BY <1>1 DEF LoadActiveRuns, StoreTypeOK, NoFound, RunRow, RunRowState
  <2> QED
    BY <1>1, <2>1 DEF LoadActiveRuns, SupervisorTypeOK, StoreTypeOK
<1>2. ASSUME PlanRecovery(LiveMonitors), UNCHANGED storeVars
      PROVE  SupervisorTypeOK' /\ UNCHANGED exec
  <2>1. plan' \in [Jobs -> PlanEntry]
    BY <1>2, PlanTypes DEF PlanRecovery
  <2>2. found' \in [Runs -> RunRow]
    BY <1>2 DEF PlanRecovery, NoFound, RunRow, RunRowState
  <2> QED
    BY <1>2, <2>1, <2>2 DEF PlanRecovery, SupervisorTypeOK
<1>3. ASSUME ApplyRecovery
      PROVE  StoreTypeOK' /\ RunsKept /\ SupervisorTypeOK' /\ UNCHANGED exec
  <2>1. StoreTypeOK' /\ RunsKept
    BY <1>3, ApplyTypes DEF ApplyRecovery, StoreTypeOK
  <2> QED
    BY <1>3, <2>1 DEF ApplyRecovery, SupervisorTypeOK
<1>4. ASSUME CleanupRecovery
      PROVE  StoreTypeOK' /\ RunsKept /\ SupervisorTypeOK' /\ UNCHANGED exec
  <2>1. StoreTypeOK' /\ RunsKept
    BY <1>4, CleanupTypes DEF CleanupRecovery, StoreTypeOK
  <2>2. heap' \in [Jobs -> Nat \cup {NoDue}] /\ plan' \in [Jobs -> PlanEntry]
    BY <1>4 DEF CleanupRecovery, SupervisorTypeOK, NoPlan, Leave, PlanEntry
  <2> QED
    BY <1>4, <2>1, <2>2 DEF CleanupRecovery, SupervisorTypeOK
<1>5. ASSUME Stopped, UNCHANGED storeVars
      PROVE  StoreTypeOK' /\ RunsKept /\ SupervisorTypeOK' /\ ExecLinked'
  BY <1>5, <1>s, StoppedTypes
<1> QED
  BY <1>s, <1>x, <1>1, <1>2, <1>3, <1>4, <1>5 DEF RefuseRecovery, RecoveryConflict

(* Steps of the due execution that leave the database alone.               *)
LEMMA BatchTypes ==
  ASSUME TypeInv, UNCHANGED storeVars, UNCHANGED <<now, mon, cmd, can, wakes, signalled>>,
         \/ PopDue \/ EndBatch \/ (\E j \in Jobs : ExecLoad(j))
         \/ ExecRefused \/ ExecSpawnError \/ ExecStorageError
  PROVE  SupervisorTypeOK' /\ ExecLinked'
<1> USE DEF TypeInv, TypeOK, Linked
<1>e. exec \in ExecState /\ heap \in [Jobs -> Nat \cup {NoDue}]
  BY DEF SupervisorTypeOK, ExecState
<1>f. runs' = runs /\ (UNCHANGED <<sup, found, wall, plan>>)
  BY DEF storeVars, PopDue, EndBatch, ExecLoad, ExecRefused, ExecSpawnError, ExecStorageError,
         ExecFrame
<1> DEFINE G == exec' \in ExecState /\ heap' \in [Jobs -> Nat \cup {NoDue}] /\ ExecLinked'
<1>1. ASSUME PopDue PROVE G
  <2>1. exec' \in ExecState /\ exec'.pc = "batch"
    BY <1>1, <1>e DEF PopDue, ExecState, ExecPc, DueJobs
  <2>2. heap' \in [Jobs -> Nat \cup {NoDue}]
    BY <1>1, <1>e DEF PopDue
  <2> QED
    BY <2>1, <2>2 DEF ExecLinked
<1>2. ASSUME EndBatch PROVE G
  <2>1. exec' \in ExecState /\ exec'.pc = "idle"
    BY <1>2 DEF EndBatch, Idle, ExecState, ExecPc
  <2>2. heap' \in [Jobs -> Nat \cup {NoDue}]
    BY <1>2, <1>e, BackoffAssumption DEF EndBatch, StoreTypeOK
  <2> QED
    BY <2>1, <2>2 DEF ExecLinked
<1>3. ASSUME NEW j \in Jobs, ExecLoad(j) PROVE G
  <2>1. jobs[j].rev \in Nat /\ jobs[j].due \in Nat
    BY DEF StoreTypeOK, JobRow
  <2>2. PICK rest \in ExecState, n \in Nat, d \in Nat :
          /\ rest = [exec EXCEPT !.batch = @ \ {j}] /\ rest.pc = "batch"
          /\ n = jobs[j].rev /\ d = jobs[j].due
    <3>1. /\ [exec EXCEPT !.batch = @ \ {j}] \in ExecState
          /\ [exec EXCEPT !.batch = @ \ {j}].pc = "batch"
      BY <1>3, <1>e DEF ExecState, ExecLoad
    <3> QED
      BY <2>1, <3>1
  <2>3. ASSUME NEW pc \in {"wait", "start"},
               exec' = [rest EXCEPT !.pc = pc, !.job = j, !.rev = n, !.due = d]
        PROVE  exec' \in ExecState /\ exec'.pc = pc /\ exec'.job = j
    BY <2>3 DEF ExecState, ExecPc
  <2>4. \/ exec' = rest
        \/ exec' = [rest EXCEPT !.pc = "wait", !.job = j, !.rev = n, !.due = d]
        \/ exec' = [rest EXCEPT !.pc = "start", !.job = j, !.rev = n, !.due = d]
    BY <1>3, <2>2 DEF ExecLoad
  <2>5. /\ exec' \in ExecState
        /\ exec'.pc = "batch" \/ (exec'.pc \in {"wait", "start"} /\ exec'.job = j)
    BY <2>2, <2>3, <2>4
  <2> QED
    BY <1>3, <1>e, <2>5 DEF ExecLoad, ExecFrame, ExecLinked
<1>4. ASSUME ExecRefused PROVE G
  <2>1. Failed /\ exec.pc \notin {"idle", "batch"} /\ UNCHANGED heap
    BY <1>4 DEF ExecRefused, ExecFrame
  <2> QED
    BY <1>e, <2>1, ExecEndTypes
<1>5. ASSUME ExecSpawnError PROVE G
  <2>1. exec' \in ExecState /\ exec'.pc = "fail_run" /\ exec'.job = exec.job /\ exec'.run = exec.run
    BY <1>5, <1>e DEF ExecSpawnError, ExecState, ExecPc
  <2> QED
    BY <1>5, <1>e, <1>f, <2>1 DEF ExecSpawnError, ExecFrame, ExecLinked
<1>6. ASSUME ExecStorageError PROVE G
  <2>1. CASE Failed /\ exec.pc \notin {"idle", "batch"}
    BY <1>6, <1>e, <2>1, ExecEndTypes DEF ExecStorageError, ExecFrame
  <2>2. ASSUME NEW j \in exec.batch, exec.pc = "batch",
               exec' = [exec EXCEPT !.batch = @ \ {j}, !.failed = @ \cup {j}]
        PROVE  G
    <3>1. j \in Jobs
      BY <1>e DEF ExecState
    <3>2. exec' \in ExecState /\ exec'.pc = "batch"
      BY <1>e, <2>2, <3>1 DEF ExecState
    <3> QED
      BY <1>6, <1>e, <3>2 DEF ExecStorageError, ExecFrame, ExecLinked
  <2> QED
    BY <1>6, <2>1, <2>2 DEF ExecStorageError
<1>7. G
  BY <1>1, <1>2, <1>3, <1>4, <1>5, <1>6
<1> QED
  BY <1>f, <1>7 DEF SupervisorTypeOK, ExecState

(* Steps of the due execution on the database.                             *)
LEMMA ExecTypes ==
  ASSUME TypeInv, now' \in Nat,
         \/ ExecWait \/ ExecStart \/ ExecMark \/ ExecFailRun \/ ExecFailJob
  PROVE  StoreTypeOK' /\ RunsKept /\ SupervisorTypeOK' /\ ExecLinked'
<1> USE DEF TypeInv, TypeOK, Linked
<1>e. exec \in ExecState /\ exec.rev \in Nat
  BY DEF SupervisorTypeOK, ExecState
<1>f. UNCHANGED <<sup, found, wall, plan, heap>>
  BY DEF ExecWait, ExecStart, ExecMark, ExecMove, ExecFailRun, ExecFailJob, ExecFrame
<1> DEFINE G == StoreTypeOK' /\ RunsKept /\ exec' \in ExecState /\ ExecLinked'
<1>1. ASSUME NEW pc \in {"wait", "start", "mark"}, NEW to \in JobRowState,
             NEW next \in {"start", "claim", "spawn"}, next = "spawn" => pc = "mark",
             ExecMove(pc, to, next)
      PROVE  G
  <2>1. exec.job \in Jobs
    BY <1>1 DEF ExecMove, ExecLinked
  <2>2. StoreTypeOK' /\ RunsKept
    BY <1>1, <1>e, <2>1, TransitionTypes DEF ExecMove
  <2>3. exec' \in ExecState /\ exec'.pc = next /\ exec'.job = exec.job /\ exec'.run = exec.run
    <3>1. ASSUME NEW e \in ExecState, NEW n \in Nat
          PROVE  LET new == [e EXCEPT !.pc = next, !.rev = n]
                 IN  new \in ExecState /\ new.pc = next /\ new.job = e.job /\ new.run = e.run
      BY DEF ExecState, ExecPc
    <3>2. exec' = [exec EXCEPT !.pc = next, !.rev = exec.rev + 1] /\ exec.rev + 1 \in Nat
      BY <1>1, <1>e DEF ExecMove
    <3> QED
      BY <1>e, <3>1, <3>2
  <2>4. ExecLinked'
    BY <1>1, <2>1, <2>2, <2>3 DEF ExecMove, ExecLinked, RunsKept
  <2> QED
    BY <2>2, <2>3, <2>4
<1>2. ASSUME ExecWait \/ ExecStart \/ ExecMark PROVE G
  BY <1>1, <1>2 DEF ExecWait, ExecStart, ExecMark, JobRowState, JobState
<1>3. ASSUME ExecFailRun PROVE G
  <2>1. StoreTypeOK' /\ RunsKept
    BY <1>3, RecordTypes DEF ExecFailRun
  <2>2. exec' \in ExecState /\ exec'.pc = "fail_job" /\ exec'.job = exec.job /\ exec'.run = exec.run
    BY <1>3, <1>e DEF ExecFailRun, ExecState, ExecPc
  <2>3. ExecLinked'
    BY <1>3, <2>1, <2>2 DEF ExecFailRun, ExecLinked, RunsKept
  <2> QED
    BY <2>1, <2>2, <2>3
<1>4. ASSUME ExecFailJob PROVE G
  <2>1. exec.job \in Jobs
    BY <1>4 DEF ExecFailJob, ExecLinked
  <2>2. StoreTypeOK' /\ RunsKept
    BY <1>4, <1>e, <2>1, TransitionTypes DEF ExecFailJob, JobRowState, JobState
  <2> QED
    BY <1>4, <2>2, ExecEndTypes DEF ExecFailJob
<1>5. G
  BY <1>2, <1>3, <1>4
<1> QED
  BY <1>5, <1>f DEF SupervisorTypeOK, ExecState

(* A claim fills a row that was never claimed, so no process but the       *)
(* execution holds it.                                                     *)
LEMMA ClaimTypes ==
  ASSUME TypeInv, ExecClaim, UNCHANGED <<now, mon, cmd, can, wakes, signalled>>
  PROVE  StoreTypeOK' /\ SupervisorTypeOK' /\ Linked'
<1> USE JobsAssumption DEF TypeInv, TypeOK, Linked
<1>e. exec \in ExecState
  BY DEF SupervisorTypeOK, ExecState
<1>j. exec.job \in Jobs /\ exec.due \in Nat
  BY <1>e DEF ExecClaim, ExecLinked, ExecState
<1>1. PICK r \in NextRun : /\ claim_run(exec.job, exec.due, r)
                           /\ exec' = [exec EXCEPT !.pc = "mark", !.run = r]
  BY DEF ExecClaim
<1>2. r \in Runs /\ runs[r].job = NoJob
  BY DEF NextRun
<1>3. runs' = [runs EXCEPT ![r] = [state |-> "starting", job |-> exec.job, slot |-> exec.due,
                                   marked |-> FALSE]]
  BY <1>1 DEF claim_run
<1>4. StoreTypeOK'
  <2>1. [state |-> "starting", job |-> exec.job, slot |-> exec.due, marked |-> FALSE] \in RunRow
    BY <1>j DEF RunRow, RunRowState, RunState
  <2>2. runs' \in [Runs -> RunRow]
    BY <1>3, <2>1 DEF StoreTypeOK
  <2>3. claims' \in [Jobs -> Nat]
    BY <1>1, <1>j DEF claim_run, StoreTypeOK
  <2> QED
    BY <1>1, <2>2, <2>3 DEF claim_run, StoreTypeOK
<1>5. exec' \in ExecState /\ exec'.job = exec.job /\ exec'.run = r
  <2>1. ASSUME NEW e \in ExecState
        PROVE  LET new == [e EXCEPT !.pc = "mark", !.run = r]
               IN  new \in ExecState /\ new.job = e.job /\ new.run = r
    BY <1>2 DEF ExecState, ExecPc
  <2> QED
    BY <1>e, <1>1, <2>1
<1>6. SupervisorTypeOK'
  BY <1>5 DEF ExecClaim, ExecFrame, SupervisorTypeOK, ExecState
<1>7. /\ runs'[r].job = exec.job /\ runs'[r].state = "starting"
      /\ \A q \in Runs \ {r} : runs'[q] = runs[q]
  BY <1>2, <1>3 DEF StoreTypeOK
<1>8. ExecLinked' /\ RunLinked'
  BY <1>2, <1>5, <1>7, <1>j DEF ExecLinked, RunLinked
<1>9. MonLinked' /\ SignalLinked'
  BY <1>2, <1>7, <1>j DEF MonLinked, SignalLinked, CliTypeOK
<1>10. CanLinked'
  BY <1>2, <1>7, <1>j DEF CanLinked, CliTypeOK, CanState, NoRun
<1> QED
  BY <1>4, <1>6, <1>8, <1>9, <1>10

(* All steps of the supervisor.                                            *)
LEMMA SupervisorTypes ==
  ASSUME TypeInv,
         SupervisorStep \/ RecoveryPlanned \/ ExecSpawn \/ SupervisorFault \/ SupervisorStop
  PROVE  TypeInv'
<1> USE DEF TypeInv, TypeOK, Linked
<1>1. now' \in Nat /\ CliTypeOK' /\ faults' \in Nat /\ dropped' \subseteq Jobs
      /\ UNCHANGED <<can, signalled>>
  BY DEF SupervisorStep, RecoveryPlanned, ExecSpawn, SupervisorFault, SupervisorStop, Fault,
         StoreTypeOK, CliTypeOK, cliVars
<1>2. CASE ExecSpawn
  <2>1. exec.run \in Runs /\ runs[exec.run].job \in Jobs
    BY <1>2 DEF ExecSpawn, ExecLinked
  <2>2. UNCHANGED <<storeVars, now, cmd, sup, found, wall, plan, heap>> /\ RunsKept
    BY <1>2 DEF ExecSpawn, ExecFrame, RunsKept, storeVars
  <2>3. StoreTypeOK' /\ SupervisorTypeOK' /\ ExecLinked'
    BY <1>2, <2>2, ExecEndTypes DEF ExecSpawn, StoreTypeOK, storeVars, SupervisorTypeOK, ExecState
  <2>4. /\ mon' \in [Runs -> MonState]
        /\ \A q \in Runs \ {exec.run} : mon'[q] = mon[q]
    BY <1>2, <2>1, MonitorGoesTypes DEF ExecSpawn, MonPc
  <2>5. MonitorTypeOK' /\ MonLinked'
    BY <2>1, <2>2, <2>4 DEF MonitorTypeOK, MonLinked, storeVars
  <2> QED
    BY <1>1, <2>2, <2>3, <2>5, KeptLinks
<1>3. CASE ~ExecSpawn
  <2>1. UNCHANGED <<now, mon, cmd, can, wakes, signalled>>
    BY <1>3 DEF SupervisorStep, RecoveryPlanned, SupervisorFault, SupervisorStop, monVars, cliVars
  <2>2. MonitorTypeOK'
    BY <2>1 DEF MonitorTypeOK
  <2>3. CASE ExecClaim
    BY <1>1, <2>1, <2>2, <2>3, ClaimTypes
  <2>4. CASE ~ExecClaim
    <3>1. \/ UNCHANGED storeVars
             /\ (\/ PopDue \/ EndBatch \/ (\E j \in Jobs : ExecLoad(j))
                 \/ ExecRefused \/ ExecSpawnError \/ ExecStorageError)
          \/ ExecWait \/ ExecStart \/ ExecMark \/ ExecFailRun \/ ExecFailJob
          \/ LoadActiveRuns /\ UNCHANGED storeVars
          \/ RefuseRecovery /\ UNCHANGED storeVars
          \/ PlanRecovery(LiveMonitors) /\ UNCHANGED storeVars
          \/ ApplyRecovery \/ RecoveryConflict \/ CleanupRecovery
          \/ Stopped /\ UNCHANGED storeVars
      BY <1>3, <2>4 DEF SupervisorStep, RecoveryPlanned, SupervisorFault, SupervisorStop,
                        ExecRefused, ExecSpawnError, ExecStorageError, storeVars
    <3>2. UNCHANGED storeVars => StoreTypeOK' /\ RunsKept
      BY <2>1 DEF storeVars, StoreTypeOK, RunsKept
    <3>3. StoreTypeOK' /\ RunsKept /\ SupervisorTypeOK' /\ ExecLinked'
      BY <1>1, <2>1, <3>1, <3>2, BatchTypes, ExecTypes, RecoveryTypes
    <3> QED
      BY <1>1, <2>1, <2>2, <3>3, KeptLinks
  <2> QED
    BY <2>3, <2>4
<1> QED
  BY <1>2, <1>3

-------------------------------------------------------------------------------
(* Every step keeps the types and the links.                               *)
LEMMA StepTypes ==
  ASSUME TypeInv, [Next]_vars
  PROVE  TypeInv'
<1>1. CASE Tick
  <2>1. StoreTypeOK' /\ RunsKept
    BY <1>1 DEF TypeInv, TypeOK, Tick, storeVars, StoreTypeOK, RunsKept
  <2>2. SupervisorTypeOK' /\ MonitorTypeOK' /\ CliTypeOK' /\ faults' \in Nat /\ dropped' \subseteq Jobs
        /\ UNCHANGED <<exec, mon, can, signalled>>
    BY <1>1 DEF TypeInv, TypeOK, Tick, supVars, monVars, cliVars, SupervisorTypeOK, MonitorTypeOK,
                CliTypeOK
  <2> QED
    BY <2>1, <2>2, KeptLinks DEF TypeInv, TypeOK, Linked
<1>2. ASSUME NEW j \in Jobs, UserStep(j) \/ ServeWake(j) \/ GiveUpWake(j) PROVE TypeInv'
  BY <1>2, UserStepTypes, WakeTypes
<1>3. ASSUME NEW c \in Cancellers, CancelStep(c) \/ CancelFault(c) PROVE TypeInv'
  BY <1>3, CancelStoreTypes, CancelSignalTypes DEF CancelStep
<1>4. CASE Supervise \/ SupervisorFault \/ SupervisorStop
  BY <1>4, SupervisorTypes DEF Supervise
<1>5. ASSUME NEW r \in Runs, MonitorStep(r) \/ CommandStep(r) \/ MonWake(r) \/ MonitorFault(r)
      PROVE  TypeInv'
  BY <1>5, MonitorStepTypes, MonitorRestTypes
<1>6. CASE UNCHANGED vars
  <2>1. StoreTypeOK' /\ RunsKept
    BY <1>6 DEF TypeInv, TypeOK, vars, storeVars, StoreTypeOK, RunsKept
  <2>2. SupervisorTypeOK' /\ MonitorTypeOK' /\ CliTypeOK' /\ faults' \in Nat /\ dropped' \subseteq Jobs
        /\ UNCHANGED <<exec, mon, can, signalled>>
    BY <1>6 DEF TypeInv, TypeOK, vars, supVars, monVars, cliVars, SupervisorTypeOK, MonitorTypeOK,
                CliTypeOK
  <2> QED
    BY <2>1, <2>2, KeptLinks DEF TypeInv, TypeOK, Linked
<1> QED
  BY <1>1, <1>2, <1>3, <1>4, <1>5, <1>6 DEF Next

(* The types and the links hold in every reachable state, for any number   *)
(* of jobs, runs and cancellers and with any faults.                       *)
THEOREM TypeInvariant == Spec => []TypeInv
<1>1. TypeInv /\ [Next]_vars => TypeInv'
  BY StepTypes
<1> QED
  BY InitTypes, <1>1, PTL DEF Spec

(* No process ever takes a row, an id or a program counter out of its      *)
(* type.                                                                   *)
THEOREM TypeCorrect == Spec => []TypeOK
<1>1. TypeInv => TypeOK
  BY DEF TypeInv
<1> QED
  BY TypeInvariant, <1>1, PTL

-------------------------------------------------------------------------------
(* At most once.  Every request of a user buys one claim.  It is held by   *)
(* the job while it waits, then by the execution between the transition to *)
(* starting and claim_run, and is spent by the claim; nothing but a user   *)
(* makes a new one.                                                        *)
Owed(j) == IF jobs[j].state \in Pending THEN 1 ELSE 0

Claiming(j) == IF exec.pc = "claim" /\ exec.job = j THEN 1 ELSE 0

Budget == \A j \in Jobs \ Recurring : claims[j] + Owed(j) + Claiming(j) <= permits[j]

(* A step revives no one-shot job.                                         *)
NotRevived ==
  \A j \in Jobs \ Recurring : jobs'[j].state \in Pending => jobs[j].state \in Pending

(* The execution gets no new claim to make.                                *)
NoNewClaim == exec'.pc = "claim" => exec.pc = "claim" /\ exec'.job = exec.job

(* A step that grants no claim, revives no job and claims nothing keeps    *)
(* the budget.                                                             *)
LEMMA BudgetKept ==
  ASSUME TypeInv, Budget, UNCHANGED <<permits, claims>>, NotRevived, NoNewClaim
  PROVE  Budget'
<1> SUFFICES ASSUME NEW j \in Jobs \ Recurring
             PROVE  claims'[j] + Owed(j)' + Claiming(j)' <= permits'[j]
  BY DEF Budget
<1>1. claims[j] \in Nat /\ permits[j] \in Nat /\ claims[j] + Owed(j) + Claiming(j) <= permits[j]
  BY DEF Budget, TypeInv, TypeOK, StoreTypeOK
<1>2. Owed(j)' <= Owed(j) /\ Owed(j) \in {0, 1} /\ Owed(j)' \in {0, 1}
  BY DEF Owed, NotRevived
<1>3. Claiming(j)' <= Claiming(j) /\ Claiming(j) \in {0, 1} /\ Claiming(j)' \in {0, 1}
  BY DEF Claiming, NoNewClaim
<1> QED
  BY <1>1, <1>2, <1>3

(* No legal transition of a one-shot job leads back to waiting.            *)
LEMMA TransitionRevivesNone ==
  ASSUME TypeInv, NEW j \in Jobs, NEW rev, NEW to, transition_job(j, rev, to)
  PROVE  NotRevived /\ UNCHANGED <<runs, permits, claims>>
<1>1. to \in Pending => jobs[j].state \in Pending
  BY DEF transition_job, CanTransition, job_transition, OneShotLegal, Pending
<1>2. \A i \in Jobs : jobs'[i].state = IF i = j THEN to ELSE jobs[i].state
  BY DEF transition_job, TypeInv, TypeOK, StoreTypeOK, JobRow
<1> QED
  BY <1>1, <1>2 DEF transition_job, NotRevived

(* A submission or a rerun buys the claim that the waiting job holds.      *)
LEMMA BudgetUser ==
  ASSUME TypeInv, Budget, NEW j \in Jobs, UserStep(j)
  PROVE  Budget'
<1>1. UNCHANGED exec
  BY DEF UserStep, supVars
<1>2. CASE Submit(j) \/ Rerun(j)
  <2>1. /\ jobs[j].state \notin Pending
        /\ permits' = [permits EXCEPT ![j] = permits[j] + 1]
        /\ \A i \in Jobs \ {j} : jobs'[i] = jobs[i]
        /\ claims' = claims
    BY <1>2 DEF Submit, create, Rerun, prepare_rerun, JobTerminal, Pending, TypeInv, TypeOK,
                StoreTypeOK
  <2> SUFFICES ASSUME NEW i \in Jobs \ Recurring
               PROVE  claims'[i] + Owed(i)' + Claiming(i)' <= permits'[i]
    BY DEF Budget
  <2>2. /\ claims[i] \in Nat /\ permits[i] \in Nat
        /\ claims[i] + Owed(i) + Claiming(i) <= permits[i]
    BY DEF Budget, TypeInv, TypeOK, StoreTypeOK
  <2>3. Owed(i) \in {0, 1} /\ Owed(i)' \in {0, 1} /\ Claiming(i) \in {0, 1}
    BY DEF Owed, Claiming
  <2>4. Claiming(i)' = Claiming(i)
    BY <1>1 DEF Claiming
  <2>5. CASE i = j
    <3>1. Owed(i) = 0
      BY <2>1, <2>5 DEF Owed
    <3>2. permits'[i] = permits[i] + 1
      BY <2>1, <2>5 DEF TypeInv, TypeOK, StoreTypeOK
    <3> QED
      BY <2>1, <2>2, <2>3, <2>4, <3>1, <3>2
  <2>6. CASE i # j
    <3>1. permits'[i] = permits[i] /\ Owed(i)' = Owed(i)
      BY <2>1, <2>6 DEF TypeInv, TypeOK, StoreTypeOK, Owed
    <3> QED
      BY <2>1, <2>2, <2>4, <3>1
  <2> QED
    BY <2>5, <2>6
<1>3. CASE Remove(j)
  <2>1. NotRevived /\ UNCHANGED <<permits, claims>>
    BY <1>3 DEF Remove, hide_job, TypeInv, TypeOK, StoreTypeOK, JobRow, NotRevived
  <2> QED
    BY <1>1, <2>1, BudgetKept DEF NoNewClaim
<1> QED
  BY <1>2, <1>3 DEF UserStep

(* A canceller only takes claims away.                                     *)
LEMMA BudgetCancel ==
  ASSUME TypeInv, Budget, NEW c \in Cancellers, CancelStoreStep(c)
  PROVE  Budget'
<1>1. UNCHANGED exec
  BY DEF CancelStoreStep, supVars
<1>2. CASE CancelRequest(c) \/ CancelDirect(c) \/ CancelFinish(c)
  <2>1. can[c].job \in Jobs
    BY <1>2 DEF CancelRequest, CancelDirect, CancelFinish, TypeInv, Linked, CanLinked
  <2>2. \E rev, to : transition_job(can[c].job, rev, to)
    BY <1>2 DEF CancelRequest, CancelDirect, CancelFinish
  <2> QED
    BY <1>1, <2>1, <2>2, TransitionRevivesNone, BudgetKept DEF NoNewClaim
<1>3. CASE ~(CancelRequest(c) \/ CancelDirect(c) \/ CancelFinish(c))
  <2>1. UNCHANGED <<jobs, permits, claims>>
    BY <1>3 DEF CancelStoreStep, CancelBegin, CancelMoot, CancelDirectRefused, CancelCheck,
                CancelLoad, CancelCommit, CancelCommitRefused, CancelRecord,
                CancelRecordRefused, CancelPoll, CancelTimeout, CancelFinishMoot, storeVars,
                request_run_cancellation, record_run_terminal
  <2> QED
    BY <1>1, <2>1, BudgetKept DEF NotRevived, NoNewClaim
<1> QED
  BY <1>2, <1>3

(* A monitor revives recurring jobs alone.                                 *)
LEMMA BudgetMonitor ==
  ASSUME TypeInv, Budget, NEW r \in Runs, MonitorStep(r)
  PROVE  Budget'
<1>1. UNCHANGED exec
  BY DEF MonitorStep, supVars
<1>2. CASE MonFinish(r)
  <2>1. runs[r].job \in Jobs
    BY <1>2 DEF MonFinish, TypeInv, Linked, MonLinked
  <2>2. CASE FinishAdvances(r)
    <3>1. NotRevived /\ UNCHANGED <<permits, claims>>
      BY <1>2, <2>2 DEF MonFinish, FinishAdvances, advance_recurring_job, TypeInv, TypeOK,
                        StoreTypeOK, NotRevived
    <3> QED
      BY <1>1, <3>1, BudgetKept DEF NoNewClaim
  <2>3. CASE ~FinishAdvances(r)
    BY <1>1, <1>2, <2>1, <2>3, TransitionRevivesNone, BudgetKept DEF MonFinish, NoNewClaim
  <2> QED
    BY <2>2, <2>3
<1>3. CASE ~MonFinish(r)
  <2>1. UNCHANGED <<jobs, permits, claims>>
    BY <1>3 DEF MonitorStep, MonLoad, MonSpawn, MonMark, MonMarkRefused, MonReap, MonReapLost,
                MonRecord, MonRecordRefused, MonLoadJob, MonFinishRefused, storeVars,
                mark_run_running, record_run_terminal
  <2> QED
    BY <1>1, <2>1, BudgetKept DEF NotRevived, NoNewClaim
<1> QED
  BY <1>2, <1>3

(* Recovery, cleanup and a stop revive no job: what was underway is        *)
(* interrupted, what waited still waits or is missed.                      *)
LEMMA RecoveryRevivesNone ==
  ASSUME TypeInv, ApplyRecovery \/ CleanupRecovery
  PROVE  NotRevived /\ UNCHANGED <<permits, claims, exec>>
<1>1. CASE ApplyRecovery
  <2> SUFFICES ASSUME NEW j \in Jobs PROVE jobs'[j].state \in Pending => jobs[j].state \in Pending
    BY <1>1 DEF ApplyRecovery, apply_recovery, NotRevived
  <2>1. jobs'[j] = Recovered(j) /\ jobs[j] \in JobRow
    BY <1>1 DEF ApplyRecovery, apply_recovery, TypeInv, TypeOK, StoreTypeOK
  <2>2. Recovered(j).state \in {jobs[j].state, "interrupted", "missed"}
    BY <2>1 DEF Recovered, JobRow
  <2> QED
    BY <2>1, <2>2 DEF Pending
<1>2. CASE CleanupRecovery
  <2> PICK oldRuns, oldJobs : cleanup_retention(oldRuns, oldJobs)
    BY <1>2 DEF CleanupRecovery
  <2>1. NotRevived
    BY DEF cleanup_retention, TypeInv, TypeOK, StoreTypeOK, JobRow, NotRevived, Pending
  <2> QED
    BY <1>2, <2>1 DEF CleanupRecovery, cleanup_retention
<1> QED
  BY <1>1, <1>2

(* The transition to starting hands the job's claim to the execution.      *)
LEMMA BudgetStart ==
  ASSUME TypeInv, Budget, ExecStart
  PROVE  Budget'
<1>1. /\ exec.pc = "start" /\ exec.job \in Jobs
      /\ jobs[exec.job].state = "waiting"
      /\ transition_job(exec.job, exec.rev, "starting")
  BY DEF ExecStart, ExecMove, TypeInv, Linked, ExecLinked, transition_job, CanTransition,
         job_transition, OneShotLegal
<1>2. exec'.job = exec.job
  BY DEF ExecStart, ExecMove, TypeInv, TypeOK, SupervisorTypeOK
<1>3. \A i \in Jobs : jobs'[i].state = IF i = exec.job THEN "starting" ELSE jobs[i].state
  BY <1>1 DEF transition_job, TypeInv, TypeOK, StoreTypeOK, JobRow
<1> SUFFICES ASSUME NEW i \in Jobs \ Recurring
             PROVE  claims'[i] + Owed(i)' + Claiming(i)' <= permits'[i]
  BY DEF Budget
<1>4. /\ claims[i] \in Nat /\ permits[i] \in Nat /\ claims' = claims /\ permits' = permits
      /\ claims[i] + Owed(i) + Claiming(i) <= permits[i]
  BY <1>1 DEF Budget, TypeInv, TypeOK, StoreTypeOK, transition_job
<1>5. CASE i = exec.job
  <2>1. Owed(i) = 1 /\ Claiming(i) = 0 /\ Owed(i)' = 0 /\ Claiming(i)' \in {0, 1}
    BY <1>1, <1>3, <1>5 DEF Owed, Claiming, Pending
  <2> QED
    BY <1>4, <2>1
<1>6. CASE i # exec.job
  <2>1. Owed(i)' = Owed(i) /\ Claiming(i) = 0 /\ Claiming(i)' = 0
    BY <1>1, <1>2, <1>3, <1>6 DEF Owed, Claiming
  <2> QED
    BY <1>4, <2>1
<1> QED
  BY <1>5, <1>6

(* claim_run spends the claim that the execution holds.                    *)
LEMMA BudgetClaim ==
  ASSUME TypeInv, Budget, ExecClaim
  PROVE  Budget'
<1>1. exec.pc = "claim" /\ exec.job \in Jobs
  BY DEF ExecClaim, TypeInv, Linked, ExecLinked
<1>2. exec'.pc = "mark"
  BY DEF ExecClaim, TypeInv, TypeOK, SupervisorTypeOK
<1>3. jobs' = jobs /\ permits' = permits /\ claims' = [claims EXCEPT ![exec.job] = claims[exec.job] + 1]
  BY DEF ExecClaim, claim_run
<1> SUFFICES ASSUME NEW i \in Jobs \ Recurring
             PROVE  claims'[i] + Owed(i)' + Claiming(i)' <= permits'[i]
  BY DEF Budget
<1>4. /\ claims[i] \in Nat /\ permits[i] \in Nat
      /\ claims[i] + Owed(i) + Claiming(i) <= permits[i]
  BY DEF Budget, TypeInv, TypeOK, StoreTypeOK
<1>5. Owed(i)' = Owed(i) /\ Owed(i) \in {0, 1} /\ Claiming(i)' = 0
  BY <1>2, <1>3 DEF Owed, Claiming
<1>6. claims'[i] = claims[i] + Claiming(i) /\ Claiming(i) \in {0, 1}
  BY <1>1, <1>3 DEF Claiming, TypeInv, TypeOK, StoreTypeOK
<1> QED
  BY <1>3, <1>4, <1>5, <1>6

(* The other steps of the supervisor spend or hold what there is.          *)
LEMMA BudgetSupervisor ==
  ASSUME TypeInv, Budget, Supervise \/ SupervisorFault \/ SupervisorStop
  PROVE  Budget'
<1> USE DEF TypeInv, TypeOK, SupervisorTypeOK
<1>1. CASE ExecWait \/ ExecMark
  <2>1. exec.job \in Jobs /\ \E rev, to : transition_job(exec.job, rev, to)
    BY <1>1 DEF ExecWait, ExecMark, ExecMove, Linked, ExecLinked
  <2>2. exec'.pc # "claim"
    BY <1>1 DEF ExecWait, ExecMark, ExecMove
  <2> QED
    BY <2>1, <2>2, TransitionRevivesNone, BudgetKept DEF NoNewClaim
<1>2. CASE ExecFailJob
  <2>1. exec.job \in Jobs /\ \E rev, to : transition_job(exec.job, rev, to)
    BY <1>2 DEF ExecFailJob, Linked, ExecLinked
  <2>2. exec'.pc # "claim"
    BY <1>2 DEF ExecFailJob, Done, Idle
  <2> QED
    BY <2>1, <2>2, TransitionRevivesNone, BudgetKept DEF NoNewClaim
<1>3. CASE ApplyRecovery \/ CleanupRecovery
  BY <1>3, RecoveryRevivesNone, BudgetKept DEF NoNewClaim
<1>4. ASSUME UNCHANGED <<jobs, permits, claims>>, exec'.pc # "claim" \/ UNCHANGED exec PROVE Budget'
  BY <1>4, BudgetKept DEF NotRevived, NoNewClaim
<1>5. CASE LoadActiveRuns /\ UNCHANGED storeVars
  BY <1>4, <1>5 DEF LoadActiveRuns, storeVars
<1>6. CASE RecoveryPlanned
  BY <1>4, <1>6 DEF RecoveryPlanned, PlanRecovery, storeVars
<1>7. CASE Stopped /\ UNCHANGED storeVars
  BY <1>4, <1>7 DEF Stopped, Idle, storeVars
<1>8. CASE PopDue /\ UNCHANGED storeVars
  BY <1>4, <1>8 DEF PopDue, storeVars
<1>9. CASE EndBatch /\ UNCHANGED storeVars
  BY <1>4, <1>9 DEF EndBatch, Idle, storeVars
<1>10. CASE (\E j \in Jobs : ExecLoad(j)) /\ UNCHANGED storeVars
  <2> PICK j \in Jobs : ExecLoad(j)
    BY <1>10
  <2>1. exec'.pc \in {"batch", "wait", "start"}
    BY DEF ExecLoad
  <2> QED
    BY <1>4, <1>10, <2>1 DEF storeVars
<1>11. CASE ExecRefused \/ ExecStorageError \/ ExecSpawnError
  <2>1. UNCHANGED storeVars /\ exec'.pc # "claim"
    BY <1>11 DEF ExecRefused, ExecStorageError, ExecSpawnError, Failed, Idle
  <2> QED
    BY <1>4, <2>1 DEF storeVars
<1>12. CASE ExecSpawn
  BY <1>4, <1>12 DEF ExecSpawn, Done, Idle, storeVars
<1>13. CASE ExecFailRun
  BY <1>4, <1>13 DEF ExecFailRun, record_run_terminal
<1>14. CASE RefuseRecovery /\ UNCHANGED storeVars
  BY <1>7, <1>14 DEF RefuseRecovery
<1> QED
  BY <1>1, <1>2, <1>3, <1>5, <1>6, <1>7, <1>8, <1>9, <1>10, <1>11, <1>12, <1>13, <1>14,
     BudgetStart, BudgetClaim
     DEF Supervise, SupervisorStep, SupervisorFault, SupervisorStop, RecoveryConflict

(* Every step keeps the budget.                                            *)
LEMMA BudgetStep ==
  ASSUME TypeInv, Budget, [Next]_vars
  PROVE  Budget'
<1>1. ASSUME UNCHANGED <<storeVars, exec>> PROVE Budget'
  BY <1>1, BudgetKept DEF storeVars, NotRevived, NoNewClaim
<1>2. CASE Tick \/ UNCHANGED vars
  BY <1>1, <1>2 DEF Tick, vars, supVars
<1>3. ASSUME NEW j \in Jobs, ServeWake(j) \/ GiveUpWake(j) PROVE Budget'
  BY <1>1, <1>3 DEF ServeWake, GiveUpWake, WakeEnds, Wake, supVars
<1>4. ASSUME NEW c \in Cancellers, CancelSignal(c) \/ CancelKill(c) \/ CancelFault(c)
      PROVE  Budget'
  BY <1>1, <1>4 DEF CancelSignal, CancelKill, CancelFault, CancelAbort, supVars
<1>5. ASSUME NEW r \in Runs, CommandStep(r) \/ MonWake(r) \/ MonitorFault(r) PROVE Budget'
  BY <1>1, <1>5 DEF CommandStep, CommandExit, MonWake, Wake, MonitorFault, MonSetupError,
                    MonOutputError, MonCrash, supVars
<1> QED
  BY <1>2, <1>3, <1>4, <1>5, BudgetUser, BudgetCancel, BudgetMonitor, BudgetSupervisor
     DEF Next, CancelStep

(* A one-shot job is claimed at most once for each time a user asked for   *)
(* it, whatever crashes, recoveries, retries and cancellations do.         *)
THEOREM AtMostOnceHolds == Spec => []AtMostOnce
<1>1. Init => Budget
  BY DEF Init, StoreInit, SupervisorInit, Idle, Budget, Owed, Claiming, Pending
<1>2. TypeInv /\ Budget /\ [Next]_vars => Budget'
  BY BudgetStep
<1>3. TypeInv /\ Budget => AtMostOnce
  <2> SUFFICES ASSUME TypeInv, Budget, NEW j \in Jobs \ Recurring
               PROVE  claims[j] <= permits[j]
    BY DEF AtMostOnce
  <2>1. claims[j] \in Nat /\ permits[j] \in Nat
    BY DEF TypeInv, TypeOK, StoreTypeOK
  <2>2. Owed(j) \in {0, 1} /\ Claiming(j) \in {0, 1}
    BY DEF Owed, Claiming
  <2> QED
    BY <2>1, <2>2 DEF Budget
<1> QED
  BY <1>1, <1>2, <1>3, TypeInvariant, PTL DEF Spec

-------------------------------------------------------------------------------
(* The history of runs.  Whoever writes a run, its row stays as it is, is  *)
(* deleted, is claimed for the first time, or follows run_transition.      *)
RunMoves(r) ==
  \/ runs'[r].state = runs[r].state
  \/ runs'[r].state = "absent"
  \/ runs[r].job = NoJob /\ runs[r].state = "absent" /\ runs'[r].state = "starting"
  \/ run_transition(runs[r].state, runs'[r].state)

LEMMA RecordMoves ==
  ASSUME TypeInv, NEW q \in Runs, NEW outcome, record_run_terminal(q, outcome)
  PROVE  \A r \in Runs : RunMoves(r)
<1>1. run_transition(runs[q].state, complete_run(runs[q].state, outcome))
  BY DEF record_run_terminal, CanRecord, complete_run
<1>2. \A r \in Runs : runs'[r].state = IF r = q THEN complete_run(runs[q].state, outcome)
                                       ELSE runs[r].state
  BY DEF record_run_terminal, TypeInv, TypeOK, StoreTypeOK, RunRow
<1> QED
  BY <1>1, <1>2 DEF RunMoves

LEMMA RunsMove ==
  ASSUME TypeInv, [Next]_vars
  PROVE  \A r \in Runs : RunMoves(r)
<1> USE DEF TypeInv, TypeOK
<1>1. ASSUME UNCHANGED runs PROVE \A r \in Runs : RunMoves(r)
  BY <1>1 DEF RunMoves
<1>2. ASSUME NEW j \in Jobs, UserStep(j) PROVE \A r \in Runs : RunMoves(r)
  <2>1. CASE Submit(j) \/ Rerun(j)
    BY <1>1, <2>1 DEF Submit, create, Rerun, prepare_rerun
  <2>2. CASE Remove(j)
    BY <2>2 DEF Remove, hide_job, StoreTypeOK, RunRow, RunMoves
  <2> QED
    BY <1>2, <2>1, <2>2 DEF UserStep
<1>3. ASSUME NEW c \in Cancellers, CancelStep(c) \/ CancelFault(c)
      PROVE  \A r \in Runs : RunMoves(r)
  <2>1. CASE CancelCommit(c)
    <3>1. can[c].run \in Runs
      BY <2>1 DEF CancelCommit, Linked, CanLinked
    <3> QED
      BY <2>1, <3>1 DEF CancelCommit, request_run_cancellation, RunActive, run_transition,
                        RunLegal, StoreTypeOK, RunRow, RunMoves
  <2>2. CASE CancelRecord(c)
    <3>1. can[c].run \in Runs
      BY <2>2 DEF CancelRecord, Linked, CanLinked
    <3> QED
      BY <2>2, <3>1, RecordMoves DEF CancelRecord
  <2>3. CASE ~(CancelCommit(c) \/ CancelRecord(c))
    <3>1. UNCHANGED runs
      BY <1>3, <2>3 DEF CancelStep, CancelFault, CancelAbort, CancelSignal, CancelKill,
           CancelStoreStep, CancelBegin, CancelRequest, CancelMoot, CancelDirect,
           CancelDirectRefused, CancelCheck, CancelLoad, CancelCommitRefused,
           CancelRecordRefused, CancelPoll, CancelTimeout, CancelFinish, CancelFinishMoot,
           transition_job, storeVars
    <3> QED
      BY <1>1, <3>1
  <2> QED
    BY <2>1, <2>2, <2>3
<1>4. ASSUME NEW q \in Runs, MonitorStep(q) PROVE \A r \in Runs : RunMoves(r)
  <2>1. CASE MonMark(q)
    BY <2>1 DEF MonMark, mark_run_running, CanMark, run_transition, RunLegal, StoreTypeOK,
                RunRow, RunMoves
  <2>2. CASE MonRecord(q)
    BY <2>2, RecordMoves DEF MonRecord
  <2>3. CASE ~(MonMark(q) \/ MonRecord(q))
    <3>1. UNCHANGED runs
      BY <1>4, <2>3 DEF MonitorStep, MonLoad, MonSpawn, MonMarkRefused, MonReap, MonReapLost,
           MonRecordRefused, MonLoadJob, MonFinish, MonFinishRefused, storeVars,
           advance_recurring_job, transition_job
    <3> QED
      BY <1>1, <3>1
  <2> QED
    BY <2>1, <2>2, <2>3
<1>5. CASE ApplyRecovery
  <2> SUFFICES ASSUME NEW r \in Runs PROVE RunMoves(r)
    OBVIOUS
  <2>1. CASE \E j \in Jobs : plan[j].act = "interrupt" /\ plan[j].run = r
    <3>1. runs[r].state \in RunActive
      BY <1>5, <2>1, BoundsAssumption DEF ApplyRecovery, apply_recovery, StillValid, Runs, NoRun
    <3> QED
      BY <1>5, <2>1, <3>1 DEF ApplyRecovery, apply_recovery, StoreTypeOK, RunRow, RunActive,
                              run_transition, RunLegal, RunMoves
  <2>2. CASE ~ \E j \in Jobs : plan[j].act = "interrupt" /\ plan[j].run = r
    BY <1>5, <2>2 DEF ApplyRecovery, apply_recovery, RunMoves
  <2> QED
    BY <2>1, <2>2
<1>6. CASE CleanupRecovery
  BY <1>6 DEF CleanupRecovery, cleanup_retention, StoreTypeOK, RunRow, RunMoves
<1>7. CASE ExecClaim
  BY <1>7 DEF ExecClaim, claim_run, NextRun, StoreTypeOK, RunRow, RunMoves, Linked, RunLinked
<1>8. CASE ExecFailRun
  BY <1>8, RecordMoves DEF ExecFailRun, Linked, ExecLinked
<1>9. CASE /\ Supervise \/ SupervisorFault \/ SupervisorStop
           /\ ~(ApplyRecovery \/ CleanupRecovery \/ ExecClaim \/ ExecFailRun)
  BY <1>1, <1>9 DEF Supervise, SupervisorFault, SupervisorStop, SupervisorStep, RecoveryPlanned,
       ExecSpawn, RecoveryConflict, ExecWait, ExecStart, ExecMark, ExecMove, ExecRefused,
       ExecFailJob, ExecSpawnError, ExecStorageError, transition_job, storeVars
<1>10. ASSUME NEW j \in Jobs, ServeWake(j) \/ GiveUpWake(j) PROVE \A r \in Runs : RunMoves(r)
  BY <1>1, <1>10 DEF ServeWake, GiveUpWake, WakeEnds, storeVars
<1>11. ASSUME NEW q \in Runs, CommandStep(q) \/ MonWake(q) \/ MonitorFault(q)
       PROVE  \A r \in Runs : RunMoves(r)
  BY <1>1, <1>11 DEF CommandStep, CommandExit, MonWake, MonitorFault, MonSetupError,
       MonOutputError, MonCrash, storeVars
<1>12. CASE Tick \/ UNCHANGED vars
  BY <1>1, <1>12 DEF Tick, vars, storeVars
<1> QED
  BY <1>2, <1>3, <1>4, <1>5, <1>6, <1>7, <1>8, <1>9, <1>10, <1>11, <1>12 DEF Next

(* A terminal run never changes again, a committed cancellation is never   *)
(* taken back, and only a committed cancellation makes a run cancelled:    *)
(* whichever of canceller, monitor, supervisor and recovery writes it.     *)
THEOREM RunHistoryHolds == Spec => RunHistory
<1>1. TypeInv /\ [Next]_vars =>
        [\A r \in Runs :
           /\ runs[r].state \in RunTerminal => runs'[r].state \in {runs[r].state, "absent"}
           /\ runs[r].state = "cancel_requested" =>
                runs'[r].state \in RunTerminal \cup {"cancel_requested", "absent"}
           /\ runs'[r].state = "cancelled" =>
                runs[r].state \in {"cancel_requested", "cancelled"}]_vars
  BY RunsMove DEF RunMoves, run_transition, RunLegal, RunTerminal
<1> QED
  BY <1>1, TypeInvariant, PTL DEF Spec, RunHistory

-------------------------------------------------------------------------------
(* Signals.  A canceller on its way to a signal has seen the cancellation  *)
(* of its run committed, or the run over, and no later step takes a run of *)
(* a job back to starting or running.                                      *)
Committed(r) == runs[r].state \notin {"starting", "running"}

CommittedFirst ==
  \A c \in Cancellers : can[c].pc \in {"signal", "kill"} => Committed(can[c].run)

LEMMA CommittedStays ==
  ASSUME TypeInv, NEW r \in Runs, RunMoves(r), runs[r].job \in Jobs, Committed(r)
  PROVE  Committed(r)'
BY JobsAssumption DEF Committed, RunMoves, run_transition, RunLegal

(* The canceller's own steps towards a signal.                             *)
LEMMA CancelCommits ==
  ASSUME TypeInv, CommittedFirst, NEW c \in Cancellers, CancelStep(c) \/ CancelFault(c)
  PROVE  /\ can'[c].pc \in {"signal", "kill"} => Committed(can[c].run)'
         /\ \A d \in Cancellers \ {c} : can'[d] = can[d]
         /\ signalled' # signalled =>
              signalled' = signalled \cup {can[c].run} /\ Committed(can[c].run)
<1> USE DEF TypeInv, TypeOK, CliTypeOK, CanGoes, CanEnds, CanFrame
<1>1. CASE CancelSignal(c)
  BY <1>1 DEF CancelSignal, CanState, Committed, CommittedFirst, storeVars
<1>2. CASE CancelLoad(c)
  BY <1>2 DEF CancelLoad, CanState, Committed, RunTerminal, storeVars, NotCancelling
<1>3. CASE CancelCommit(c)
  <2>1. can[c].run \in Runs /\ can[c] \in CanState
    BY <1>3 DEF CancelCommit, Linked, CanLinked
  <2>2. runs'[can[c].run].state = "cancel_requested"
    BY <1>3, <2>1 DEF CancelCommit, request_run_cancellation, StoreTypeOK, RunRow
  <2>3. can'[c].run = can[c].run
    BY <1>3, <2>1 DEF CancelCommit, CanState
  <2> QED
    BY <1>3, <2>2, <2>3 DEF CancelCommit, Committed
<1>4. CASE \E j \in Jobs : CancelBegin(c, j)
  BY <1>4 DEF CancelBegin, NotCancelling, CanState
<1>5. CASE CancelRequest(c)
  BY <1>5 DEF CancelRequest, CanState
<1>6. CASE CancelCheck(c) \/ CancelRecord(c) \/ CancelKill(c) \/ CancelPoll(c)
  BY <1>6 DEF CancelCheck, CancelRecord, CancelKill, CancelPoll, CanState, NotCancelling
<1>7. CASE CanEnds(c) /\ CanFrame
  BY <1>7 DEF NotCancelling
<1> QED
  BY <1>1, <1>2, <1>3, <1>4, <1>5, <1>6, <1>7
     DEF CancelStep, CancelStoreStep, CancelFault, CancelAbort, CancelMoot, CancelDirect,
         CancelDirectRefused, CancelCommitRefused, CancelRecordRefused, CancelTimeout,
         CancelFinish, CancelFinishMoot

LEMMA SignalStep ==
  ASSUME TypeInv, CommittedFirst, SignalAfterCommit, [Next]_vars
  PROVE  CommittedFirst' /\ SignalAfterCommit'
<1>1. \A r \in Runs : RunMoves(r)
  BY RunsMove
<1>2. \A r \in signalled : r \in Runs /\ Committed(r)'
  BY <1>1, CommittedStays DEF TypeInv, TypeOK, CliTypeOK, Linked, SignalLinked, SignalAfterCommit,
                              Committed
<1>3. ASSUME NEW c \in Cancellers, can'[c] = can[c], can[c].pc \in {"signal", "kill"}
      PROVE  Committed(can[c].run)'
  <2>1. can[c].run \in Runs /\ runs[can[c].run].job \in Jobs /\ Committed(can[c].run)
    BY <1>3 DEF TypeInv, Linked, CanLinked, CommittedFirst, NoRun, Runs
  <2>2. \A r \in Runs : runs[r].job \in Jobs /\ Committed(r) => Committed(r)'
    BY <1>1, CommittedStays
  <2>3. runs'[can[c].run].state \notin {"starting", "running"}
    BY <2>1, <2>2 DEF Committed
  <2> QED
    BY <1>3, <2>3 DEF Committed
<1>4. ASSUME NEW c \in Cancellers, CancelStep(c) \/ CancelFault(c)
      PROVE  CommittedFirst' /\ SignalAfterCommit'
  <2>1. CommittedFirst'
    BY <1>3, <1>4, CancelCommits DEF CommittedFirst
  <2>2. CASE signalled' = signalled
    BY <1>2, <2>2, <2>1 DEF SignalAfterCommit, Committed
  <2>3. CASE signalled' # signalled
    <3>1. CancelSignal(c)
      BY <1>4, <2>3 DEF CancelStep, CancelStoreStep, CancelFault, CancelAbort, CancelKill,
           CancelBegin, CancelRequest, CancelMoot, CancelDirect, CancelDirectRefused,
           CancelCheck, CancelLoad, CancelCommit, CancelCommitRefused, CancelRecord,
           CancelRecordRefused, CancelPoll, CancelTimeout, CancelFinish, CancelFinishMoot,
           CanFrame
    <3>2. UNCHANGED runs
      BY <3>1 DEF CancelSignal, storeVars
    <3>3. signalled' = signalled \cup {can[c].run} /\ Committed(can[c].run)
      BY <1>4, <2>3, CancelCommits
    <3>4. SignalAfterCommit'
      BY <3>2, <3>3 DEF SignalAfterCommit, Committed
    <3> QED
      BY <2>1, <3>4
  <2> QED
    BY <2>2, <2>3, <2>1
<1>5. ASSUME UNCHANGED <<can, signalled>> PROVE CommittedFirst' /\ SignalAfterCommit'
  BY <1>2, <1>3, <1>5 DEF CommittedFirst, SignalAfterCommit, Committed
<1>6. ASSUME ~ \E c \in Cancellers : CancelStep(c) \/ CancelFault(c)
      PROVE  UNCHANGED <<can, signalled>>
  BY <1>6 DEF Next, vars, Tick, UserStep, Submit, Rerun, Remove, ServeWake, GiveUpWake, WakeEnds,
       Supervise, SupervisorStep, RecoveryPlanned, ExecSpawn, SupervisorFault, SupervisorStop,
       MonitorStep, CommandStep, MonWake, MonitorFault, cliVars
<1> QED
  BY <1>4, <1>5, <1>6

(* No command is signalled before its cancellation is durable, and the     *)
(* durable request is never lost afterwards.                               *)
THEOREM SignalAfterCommitHolds == Spec => []SignalAfterCommit
<1>1. Init => CommittedFirst /\ SignalAfterCommit
  BY DEF Init, CliInit, NotCancelling, CommittedFirst, SignalAfterCommit
<1>2. TypeInv /\ CommittedFirst /\ SignalAfterCommit /\ [Next]_vars
        => CommittedFirst' /\ SignalAfterCommit'
  BY SignalStep
<1> QED
  BY <1>1, <1>2, TypeInvariant, PTL DEF Spec

-------------------------------------------------------------------------------
(* Results.  A run gets a result from its monitor, which has one only when *)
(* the command is over, or from an execution that could not start the      *)
(* monitor; and no command starts once there is a result.                  *)
Ended == {"succeeded", "failed"}

BeforeResult == {"boot", "spawn", "mark", "wait", "record"}

ResultOK(r) ==
  /\ mon[r].pc \in {"none", "boot", "spawn"} => cmd[r] = "none"
  /\ mon[r].pc \in BeforeResult => runs[r].state \notin Ended
  /\ mon[r].pc = "record" => /\ mon[r].out = "exit_zero" => cmd[r] = "ok"
                             /\ mon[r].out \in {"exit_nonzero", "failure"} => cmd[r] # "alive"
  /\ runs[r].state = "succeeded" => cmd[r] = "ok"
  /\ runs[r].state = "failed" => cmd[r] # "alive"

Unspawned ==
  exec.pc \in {"mark", "spawn", "fail_run"} =>
    mon[exec.run].pc = "none" /\ runs[exec.run].state \notin Ended

Results == Unspawned /\ \A r \in Runs : ResultOK(r)

(* A step that gives no run a result.                                      *)
NoResult == \A r \in Runs : runs'[r].state \in Ended => runs'[r].state = runs[r].state

(* The command of a run is as it was, or it ended.                         *)
CommandKept(r) == cmd'[r] = cmd[r] \/ (cmd[r] = "alive" /\ cmd'[r] \in {"ok", "bad"})

LEMMA ResultKept ==
  ASSUME TypeInv, NEW r \in Runs, ResultOK(r), mon'[r] = mon[r], CommandKept(r),
         runs'[r].state \in Ended => runs'[r].state = runs[r].state
  PROVE  ResultOK(r)'
BY DEF ResultOK, CommandKept, Ended, BeforeResult

LEMMA UnspawnedKept ==
  ASSUME TypeInv, Unspawned, UNCHANGED exec, NoResult,
         exec.pc \in {"mark", "spawn", "fail_run"} => mon'[exec.run] = mon[exec.run]
  PROVE  Unspawned'
<1>1. exec.pc \in {"mark", "spawn", "fail_run"} => exec.run \in Runs
  BY DEF TypeInv, Linked, ExecLinked
<1> QED
  BY <1>1 DEF Unspawned, NoResult

(* A step of somebody else than the monitor of r.                          *)
LEMMA ResultsKept ==
  ASSUME TypeInv, Results, UNCHANGED <<exec, mon>>, NoResult, \A r \in Runs : CommandKept(r)
  PROVE  Results'
<1>1. Unspawned'
  BY UnspawnedKept DEF Results
<1>2. \A r \in Runs : ResultOK(r)'
  BY ResultKept DEF Results, NoResult
<1> QED
  BY <1>1, <1>2 DEF Results

LEMMA ResultsUser ==
  ASSUME TypeInv, Results, NEW j \in Jobs, UserStep(j)
  PROVE  Results'
<1>1. NoResult
  BY DEF UserStep, Submit, create, Rerun, prepare_rerun, Remove, hide_job, TypeInv, TypeOK,
         StoreTypeOK, RunRow, NoResult, Ended
<1>2. UNCHANGED <<exec, mon, cmd>>
  BY DEF UserStep, supVars, monVars
<1> QED
  BY <1>1, <1>2, ResultsKept DEF CommandKept

LEMMA ResultsCancel ==
  ASSUME TypeInv, Results, NEW c \in Cancellers, CancelStep(c) \/ CancelFault(c)
  PROVE  Results'
<1> USE DEF TypeInv, TypeOK
<1>1. UNCHANGED <<exec, mon>>
  BY DEF CancelStep, CancelFault, CancelStoreStep, CancelSignal, CancelKill, supVars, monVars
<1>2. \A r \in Runs : CommandKept(r)
  <2>1. CASE CancelKill(c)
    BY <2>1 DEF CancelKill, Kill, MonitorTypeOK, CommandKept
  <2>2. CASE ~CancelKill(c)
    BY <2>2 DEF CancelStep, CancelFault, CancelStoreStep, CancelSignal, monVars, CommandKept
  <2> QED
    BY <2>1, <2>2
<1>3. NoResult
  <2>1. CASE CancelCommit(c)
    BY <2>1 DEF CancelCommit, request_run_cancellation, StoreTypeOK, RunRow, NoResult, Ended
  <2>2. CASE CancelRecord(c)
    <3>1. /\ can[c].run \in Runs /\ runs[can[c].run].state \in RunRowState
          /\ record_run_terminal(can[c].run, "cancelled")
      BY <2>2 DEF CancelRecord, Linked, CanLinked, StoreTypeOK, RunRow
    <3>2. complete_run(runs[can[c].run].state, "cancelled") = "cancelled"
      BY <3>1, CompleteRunType DEF record_run_terminal, CanRecord, outcome_state
    <3> QED
      BY <3>1, <3>2 DEF record_run_terminal, StoreTypeOK, RunRow, NoResult, Ended
  <2>3. CASE ~(CancelCommit(c) \/ CancelRecord(c))
    <3>1. UNCHANGED runs
      BY <2>3 DEF CancelStep, CancelFault, CancelAbort, CancelSignal, CancelKill,
           CancelStoreStep, CancelBegin, CancelRequest, CancelMoot, CancelDirect,
           CancelDirectRefused, CancelCheck, CancelLoad, CancelCommitRefused,
           CancelRecordRefused, CancelPoll, CancelTimeout, CancelFinish, CancelFinishMoot,
           transition_job, storeVars
    <3> QED
      BY <3>1 DEF NoResult
  <2> QED
    BY <2>1, <2>2, <2>3
<1> QED
  BY <1>1, <1>2, <1>3, ResultsKept

(* A monitor and its command touch no other run.                           *)
LEMMA OwnRunOnly ==
  ASSUME TypeInv, NEW r \in Runs,
         MonitorStep(r) \/ CommandStep(r) \/ MonWake(r) \/ MonitorFault(r)
  PROVE  \A q \in Runs \ {r} : mon'[q] = mon[q] /\ cmd'[q] = cmd[q] /\ runs'[q] = runs[q]
<1> USE DEF TypeInv, TypeOK, MonitorTypeOK, StoreTypeOK
<1>1. \A q \in Runs \ {r} : mon'[q] = mon[q]
  BY DEF MonitorStep, CommandStep, CommandExit, MonWake, MonitorFault, MonSetupError,
         MonOutputError, MonCrash, MonLoad, MonSpawn, MonMark, MonMarkRefused, MonReap,
         MonReapLost, MonRecord, MonRecordRefused, MonLoadJob, MonFinish, MonFinishRefused,
         Goes, Exits
<1>2. \A q \in Runs \ {r} : cmd'[q] = cmd[q]
  BY DEF MonitorStep, CommandStep, CommandExit, MonWake, MonitorFault, MonSetupError,
         MonOutputError, MonCrash, MonLoad, MonSpawn, MonMark, MonMarkRefused, MonReap,
         MonReapLost, MonRecord, MonRecordRefused, MonLoadJob, MonFinish, MonFinishRefused,
         Kill
<1>3. CASE MonMark(r)
  BY <1>1, <1>2, <1>3 DEF MonMark, mark_run_running
<1>4. CASE MonRecord(r)
  BY <1>1, <1>2, <1>4 DEF MonRecord, record_run_terminal
<1>5. CASE ~(MonMark(r) \/ MonRecord(r))
  <2>1. UNCHANGED runs
    BY <1>5 DEF MonitorStep, CommandStep, CommandExit, MonWake, MonitorFault, MonSetupError,
         MonOutputError, MonCrash, MonLoad, MonSpawn, MonMarkRefused, MonReap,
         MonReapLost, MonRecordRefused, MonLoadJob, MonFinish, MonFinishRefused, storeVars,
         transition_job, advance_recurring_job
  <2> QED
    BY <1>1, <1>2, <2>1
<1> QED
  BY <1>3, <1>4, <1>5

(* The monitor of a run that has no result yet starts its command, waits   *)
(* for it, and has a result to record when it is over.                     *)
LEMMA ResultMonitor ==
  ASSUME TypeInv, NEW r \in Runs, ResultOK(r), MonitorStep(r)
  PROVE  ResultOK(r)'
<1> USE DEF TypeInv, TypeOK, MonitorTypeOK
<1>m. mon[r] \in MonState /\ cmd[r] \in {"none", "alive", "ok", "bad"}
  OBVIOUS
<1>0. ASSUME mon'[r].pc \in {"load_job", "finish", "wake", "dead"}, CommandKept(r), UNCHANGED runs
      PROVE  ResultOK(r)'
  BY <1>0 DEF ResultOK, BeforeResult, CommandKept
<1>1. CASE MonLoad(r)
  BY <1>1 DEF MonLoad, Goes, Exits, Exited, NoMonitor, storeVars, ResultOK, BeforeResult, Ended,
              MonState
<1>2. CASE MonSpawn(r)
  BY <1>2 DEF MonSpawn, Goes, storeVars, ResultOK, BeforeResult, Ended, MonState
<1>3. CASE MonMark(r)
  <2>1. mon'[r].pc = "wait" /\ cmd'[r] = cmd[r] /\ runs'[r].state = "running"
    BY <1>3 DEF MonMark, Goes, mark_run_running, MonState, StoreTypeOK, RunRow
  <2> QED
    BY <2>1 DEF ResultOK, BeforeResult, Ended
<1>4. CASE MonMarkRefused(r)
  <2>1. mon'[r].pc = "dead" /\ CommandKept(r) /\ UNCHANGED runs
    BY <1>4 DEF MonMarkRefused, Exits, Exited, NoMonitor, Kill, CommandKept, storeVars
  <2> QED
    BY <1>0, <2>1
<1>5. CASE MonReap(r)
  <2>1. PICK capture_failed \in BOOLEAN, wait_failed \in BOOLEAN :
          mon' = [mon EXCEPT ![r].pc = "record",
                             ![r].out = completion_outcome(cmd[r], capture_failed, wait_failed,
                                           runs[r].state = "cancel_requested")]
    BY <1>5 DEF MonReap
  <2>2. /\ mon'[r].pc = "record"
        /\ mon'[r].out = completion_outcome(cmd[r], capture_failed, wait_failed,
                                            runs[r].state = "cancel_requested")
    BY <1>m, <2>1 DEF MonState
  <2>3. mon'[r].out = "exit_zero" => cmd[r] = "ok"
    BY <2>2 DEF completion_outcome
  <2>4. UNCHANGED <<runs, cmd>> /\ cmd[r] \in {"ok", "bad"} /\ mon[r].pc = "wait"
    BY <1>5 DEF MonReap, storeVars
  <2> QED
    BY <2>2, <2>3, <2>4 DEF ResultOK, BeforeResult
<1>6. CASE MonRecord(r)
  <2>1. /\ mon'[r].pc = "load_job" /\ cmd'[r] = cmd[r] /\ mon[r].pc = "record"
        /\ CanRecord(r, mon[r].out) /\ runs[r].state \in RunRowState
        /\ runs'[r].state = complete_run(runs[r].state, mon[r].out)
    BY <1>6, <1>m DEF MonRecord, record_run_terminal, MonState, StoreTypeOK, RunRow
  <2>2. runs'[r].state = outcome_state(mon[r].out) /\ mon[r].out \in RunOutcome
    BY <1>m, <2>1, CompleteRunType DEF CanRecord, MonState
  <2>3. /\ runs'[r].state = "succeeded" => mon[r].out = "exit_zero"
        /\ runs'[r].state = "failed" => mon[r].out \in {"exit_nonzero", "failure"}
    BY <2>2 DEF outcome_state, RunOutcome
  <2> QED
    BY <2>1, <2>3 DEF ResultOK, BeforeResult
<1>7. CASE MonReapLost(r) \/ MonRecordRefused(r) \/ MonLoadJob(r) \/ MonFinish(r)
           \/ MonFinishRefused(r)
  <2>1. mon'[r].pc \in {"finish", "wake", "dead"}
    BY <1>7 DEF MonReapLost, MonRecordRefused, MonLoadJob, MonFinish, MonFinishRefused, Exits,
                Exited, NoMonitor, AfterFinish, MonState
  <2>2. UNCHANGED <<runs, cmd>>
    BY <1>7 DEF MonReapLost, MonRecordRefused, MonLoadJob, MonFinish, MonFinishRefused,
                transition_job, advance_recurring_job, storeVars
  <2> QED
    BY <1>0, <2>1, <2>2 DEF CommandKept
<1> QED
  BY <1>1, <1>2, <1>3, <1>4, <1>5, <1>6, <1>7 DEF MonitorStep

LEMMA ResultFault ==
  ASSUME TypeInv, NEW r \in Runs, ResultOK(r), CommandStep(r) \/ MonWake(r) \/ MonitorFault(r)
  PROVE  ResultOK(r)'
<1> USE DEF TypeInv, TypeOK, MonitorTypeOK
<1>m. mon[r] \in MonState /\ cmd[r] \in {"none", "alive", "ok", "bad"}
  OBVIOUS
<1>1. CASE CommandStep(r)
  <2>1. mon'[r] = mon[r] /\ CommandKept(r) /\ UNCHANGED runs
    BY <1>1 DEF CommandStep, CommandExit, CommandKept, storeVars
  <2> QED
    BY <2>1, ResultKept
<1>2. CASE MonWake(r) \/ MonCrash(r)
  <2>1. mon'[r].pc = "dead" /\ UNCHANGED <<runs, cmd>>
    BY <1>2 DEF MonWake, MonCrash, Exits, Exited, NoMonitor, storeVars
  <2> QED
    BY <2>1 DEF ResultOK, BeforeResult
<1>3. CASE MonSetupError(r)
  <2>1. /\ mon'[r].pc = "record" /\ mon'[r].out = "failure" /\ cmd'[r] \in {"none", "ok", "bad"}
        /\ UNCHANGED runs /\ mon[r].pc = "spawn"
    BY <1>3, <1>m DEF MonSetupError, MonState, storeVars
  <2> QED
    BY <2>1 DEF ResultOK, BeforeResult, Ended
<1>4. CASE MonOutputError(r)
  <2>1. /\ mon'[r].pc = "record" /\ mon'[r].out = "failure" /\ cmd'[r] # "alive"
        /\ UNCHANGED runs /\ mon[r].pc = "mark"
    BY <1>4, <1>m DEF MonOutputError, Kill, MonState, storeVars
  <2> QED
    BY <2>1 DEF ResultOK, BeforeResult, Ended
<1> QED
  BY <1>1, <1>2, <1>3, <1>4 DEF MonitorFault

LEMMA ResultsMonitor ==
  ASSUME TypeInv, Results, NEW r \in Runs,
         MonitorStep(r) \/ CommandStep(r) \/ MonWake(r) \/ MonitorFault(r)
  PROVE  Results'
<1>1. \A q \in Runs \ {r} : mon'[q] = mon[q] /\ cmd'[q] = cmd[q] /\ runs'[q] = runs[q]
  BY OwnRunOnly
<1>2. ResultOK(r)'
  BY ResultMonitor, ResultFault DEF Results
<1>3. \A q \in Runs \ {r} : ResultOK(q)'
  BY <1>1, ResultKept DEF Results, CommandKept
<1>4. Unspawned'
  <2>1. UNCHANGED exec
    BY DEF MonitorStep, CommandStep, MonWake, MonitorFault, Wake, supVars
  <2>2. mon[r].pc # "none" \/ (mon' = mon /\ runs' = runs)
    BY DEF MonitorStep, CommandStep, CommandExit, MonWake, MonitorFault, MonSetupError,
         MonOutputError, MonCrash, LiveMonitors, MonLoad, MonSpawn, MonMark, MonMarkRefused,
         MonReap, MonReapLost, MonRecord, MonRecordRefused, MonLoadJob, MonFinish,
         MonFinishRefused, storeVars
  <2>3. exec.pc \in {"mark", "spawn", "fail_run"} => exec.run \in Runs
    BY DEF TypeInv, Linked, ExecLinked
  <2> QED
    BY <1>1, <2>1, <2>2, <2>3 DEF Results, Unspawned
<1> QED
  BY <1>2, <1>3, <1>4 DEF Results

(* An execution gives a run the result "failed" only when it could not     *)
(* start the monitor, and a claimed run has none until then.               *)
LEMMA ResultsSupervisor ==
  ASSUME TypeInv, Results, Supervise \/ SupervisorFault \/ SupervisorStop
  PROVE  Results'
<1> USE DEF TypeInv, TypeOK, SupervisorTypeOK
<1> DEFINE Holding == {"mark", "spawn", "fail_run"}
<1>0. ASSUME UNCHANGED <<mon, cmd>>, NoResult, exec'.pc \notin Holding \/ UNCHANGED exec
      PROVE  Results'
  <2>1. Unspawned'
    BY <1>0, UnspawnedKept DEF Results, Unspawned
  <2>2. \A r \in Runs : ResultOK(r)'
    BY <1>0, ResultKept DEF Results, NoResult, CommandKept
  <2> QED
    BY <2>1, <2>2 DEF Results
<1>1. CASE ExecSpawn
  <2>1. /\ exec.pc = "spawn" /\ exec.run \in Runs /\ UNCHANGED <<runs, cmd>>
        /\ mon' = [mon EXCEPT ![exec.run].pc = "boot"] /\ exec'.pc = "batch"
    BY <1>1 DEF ExecSpawn, Goes, Done, Idle, Linked, ExecLinked, storeVars
  <2>2. mon'[exec.run].pc = "boot" /\ \A q \in Runs \ {exec.run} : mon'[q] = mon[q]
    BY <2>1 DEF MonitorTypeOK, MonState
  <2>3. cmd[exec.run] = "none" /\ runs[exec.run].state \notin Ended
    BY <2>1 DEF Results, Unspawned, ResultOK
  <2>4. \A r \in Runs : ResultOK(r)'
    <3>1. ASSUME NEW r \in Runs, r = exec.run PROVE ResultOK(r)'
      BY <2>1, <2>2, <2>3, <3>1 DEF ResultOK, Ended
    <3>2. ASSUME NEW r \in Runs, r # exec.run PROVE ResultOK(r)'
      BY <2>1, <2>2, <3>2, ResultKept DEF Results, CommandKept
    <3> QED
      BY <3>1, <3>2
  <2> QED
    BY <2>1, <2>4 DEF Results, Unspawned
<1>2. CASE ExecClaim
  <2>1. PICK r \in NextRun : /\ claim_run(exec.job, exec.due, r)
                             /\ exec' = [exec EXCEPT !.pc = "mark", !.run = r]
    BY <1>2 DEF ExecClaim
  <2>2. r \in Runs /\ runs[r].job = NoJob /\ mon[r].pc = "none" /\ exec'.run = r
    BY <2>1, JobsAssumption DEF NextRun, Linked, MonLinked
  <2>3. runs'[r].state = "starting" /\ \A q \in Runs \ {r} : runs'[q] = runs[q]
    BY <2>1, <2>2 DEF claim_run, StoreTypeOK
  <2>4. UNCHANGED <<mon, cmd>>
    BY <1>2 DEF Supervise, SupervisorStep, RecoveryPlanned, ExecSpawn, SupervisorFault,
                SupervisorStop, ExecClaim, monVars
  <2>5. \A q \in Runs : ResultOK(q)'
    BY <2>3, <2>4, ResultKept DEF Results, CommandKept, Ended
  <2>6. Unspawned'
    BY <2>2, <2>3, <2>4 DEF Unspawned, Ended
  <2> QED
    BY <2>5, <2>6 DEF Results
<1>3. CASE ~ExecSpawn
  <2>m. UNCHANGED <<mon, cmd>>
    BY <1>3 DEF Supervise, SupervisorStep, RecoveryPlanned, SupervisorFault, SupervisorStop,
                monVars
  <2>1. CASE ExecFailRun
    <3>1. /\ exec.run \in Runs /\ record_run_terminal(exec.run, "failure")
          /\ mon[exec.run].pc = "none" /\ exec'.pc = "fail_job"
      BY <2>1 DEF ExecFailRun, Linked, ExecLinked, Results, Unspawned
    <3>2. cmd[exec.run] = "none"
      BY <3>1 DEF Results, ResultOK
    <3>3. /\ runs[exec.run].state \in RunRowState
          /\ runs'[exec.run].state = complete_run(runs[exec.run].state, "failure")
          /\ \A q \in Runs \ {exec.run} : runs'[q] = runs[q]
      BY <3>1 DEF record_run_terminal, StoreTypeOK, RunRow
    <3>4. runs'[exec.run].state = "failed"
      BY <3>1, <3>3, CompleteRunType DEF record_run_terminal, CanRecord, outcome_state
    <3>5. ASSUME NEW r \in Runs, r = exec.run PROVE ResultOK(r)'
      BY <2>m, <3>1, <3>2, <3>4, <3>5 DEF ResultOK, BeforeResult
    <3>6. ASSUME NEW r \in Runs, r # exec.run PROVE ResultOK(r)'
      BY <2>m, <3>3, <3>6, ResultKept DEF Results, CommandKept
    <3> QED
      BY <3>1, <3>5, <3>6 DEF Results, Unspawned
  <2>2. CASE ExecMark \/ ExecSpawnError
    <3>1. /\ exec.pc \in Holding /\ exec.run \in Runs /\ exec'.run = exec.run
          /\ UNCHANGED runs
      BY <2>2 DEF ExecMark, ExecMove, ExecSpawnError, transition_job, storeVars, Linked,
                  ExecLinked
    <3>2. Unspawned'
      BY <2>m, <3>1 DEF Results, Unspawned
    <3>3. \A r \in Runs : ResultOK(r)'
      BY <2>m, <3>1, ResultKept DEF Results, CommandKept
    <3> QED
      BY <3>2, <3>3 DEF Results
  <2>3. CASE ApplyRecovery \/ CleanupRecovery
    <3>1. UNCHANGED exec
      BY <2>3 DEF ApplyRecovery, CleanupRecovery
    <3>2. \A r \in Runs : runs'[r] = runs[r] \/ runs'[r] = [runs[r] EXCEPT !.state = "absent"]
                          \/ runs'[r] = [runs[r] EXCEPT !.state = "interrupted"]
      BY <2>3 DEF ApplyRecovery, apply_recovery, CleanupRecovery, cleanup_retention
    <3>3. NoResult
      BY <3>2 DEF StoreTypeOK, RunRow, NoResult, Ended
    <3> QED
      BY <1>0, <2>m, <3>1, <3>3
  <2>4. CASE ~(ExecClaim \/ ExecFailRun \/ ExecMark \/ ExecSpawnError \/ ApplyRecovery
               \/ CleanupRecovery)
    <3>1. UNCHANGED runs
      BY <1>3, <2>4 DEF Supervise, SupervisorFault, SupervisorStop, SupervisorStep,
           RecoveryPlanned, RecoveryConflict, ExecWait, ExecStart, ExecMove, ExecRefused,
           ExecFailJob, ExecStorageError, transition_job, storeVars
    <3>2. exec'.pc \notin Holding \/ UNCHANGED exec
      <4>1. \/ RecoveryPlanned \/ LoadActiveRuns \/ Stopped \/ PopDue \/ EndBatch
            \/ (\E j \in Jobs : ExecLoad(j)) \/ ExecWait \/ ExecStart \/ Done \/ Failed
            \/ ExecStorageError
        BY <1>3, <2>4 DEF Supervise, SupervisorFault, SupervisorStop, SupervisorStep,
             RecoveryConflict, RefuseRecovery, ExecRefused, ExecFailJob
      <4>2. CASE RecoveryPlanned \/ LoadActiveRuns
        BY <4>2 DEF RecoveryPlanned, PlanRecovery, LoadActiveRuns
      <4>3. CASE Stopped \/ EndBatch \/ Done \/ Failed
        <5>1. CASE Stopped \/ EndBatch
          BY <5>1 DEF Stopped, EndBatch, Idle
        <5>2. CASE Done \/ Failed
          BY <5>2 DEF Done, Failed, Idle
        <5> QED
          BY <4>3, <5>1, <5>2
      <4>4. CASE PopDue \/ ExecWait \/ ExecStart
        BY <4>4 DEF PopDue, ExecWait, ExecStart, ExecMove
      <4>6. CASE ExecStorageError
        <5>1. CASE Failed
          BY <5>1 DEF Failed, Idle
        <5>2. CASE exec.pc = "batch" /\ ~Failed
          <6>1. exec'.pc = exec.pc
            BY <4>6, <5>2 DEF ExecStorageError
          <6> QED
            BY <5>2, <6>1
        <5> QED
          BY <4>6, <5>1, <5>2 DEF ExecStorageError
      <4>5. CASE \E j \in Jobs : ExecLoad(j)
        BY <4>5 DEF ExecLoad
      <4> QED
        BY <4>1, <4>2, <4>3, <4>4, <4>5, <4>6
    <3> QED
      BY <1>0, <2>m, <3>1, <3>2 DEF NoResult
  <2> QED
    BY <1>2, <2>1, <2>2, <2>3, <2>4
<1> QED
  BY <1>1, <1>3

LEMMA ResultsInvariant == Spec => []Results
<1>1. Init => Results
  BY DEF Init, StoreInit, SupervisorInit, MonitorInit, Idle, NoMonitor, Results, Unspawned,
         ResultOK, BeforeResult, Ended
<1>2. TypeInv /\ Results /\ [Next]_vars => Results'
  <2> SUFFICES ASSUME TypeInv, Results, [Next]_vars PROVE Results'
    OBVIOUS
  <2>0. ASSUME UNCHANGED <<exec, mon, cmd, runs>> PROVE Results'
    BY <2>0, ResultsKept DEF NoResult, CommandKept
  <2>1. CASE Tick \/ UNCHANGED vars
    BY <2>0, <2>1 DEF Tick, vars, supVars, monVars, storeVars
  <2>2. ASSUME NEW j \in Jobs, ServeWake(j) \/ GiveUpWake(j) PROVE Results'
    BY <2>0, <2>2 DEF ServeWake, GiveUpWake, WakeEnds, Wake, supVars, monVars, storeVars
  <2> QED
    BY <2>1, <2>2, ResultsUser, ResultsCancel, ResultsSupervisor, ResultsMonitor DEF Next
<1> QED
  BY <1>1, <1>2, TypeInvariant, PTL DEF Spec

(* A recorded result is the result, for any interleaving of monitors,      *)
(* commands, cancellers, recoveries and crashes: a run is succeeded only   *)
(* when its command exited with 0, and failed only when none of it runs.   *)
THEOREM ResultMeansCommandOverHolds == Spec => []ResultMeansCommandOver
<1>1. Results => ResultMeansCommandOver
  BY DEF Results, ResultOK, ResultMeansCommandOver
<1> QED
  BY <1>1, ResultsInvariant, PTL

-------------------------------------------------------------------------------
(* The history of jobs.  The table of legal transitions lets a recurring   *)
(* job return from a terminal state to waiting, so it is the revision that *)
(* keeps a monitor from doing so: what the monitor loaded was not          *)
(* terminal, and a job that moved has another revision.                    *)
Stored == \A j \in Jobs : permits[j] = 0 => jobs[j].state = "absent"

LoadedJob(r) ==
  LET job == jobs[runs[r].job]
  IN  /\ permits[runs[r].job] > 0
      /\ mon[r].state \notin JobTerminal
      /\ mon[r].rev <= job.rev
      /\ mon[r].rev = job.rev => job.state \in {mon[r].state, "absent"}

Loaded == \A r \in Runs : mon[r].pc = "finish" => LoadedJob(r)

(* What a step may do to a job: nothing but a new revision, delete it,     *)
(* move one that is not terminal under a new revision, run it again for a  *)
(* user, or create it for the first time.                                  *)
Stays(j) == jobs'[j].state = jobs[j].state /\ jobs'[j].rev >= jobs[j].rev

Deleted(j) == jobs'[j].state = "absent" /\ jobs'[j].rev = jobs[j].rev

Moves(j) ==
  /\ jobs[j].state \notin JobTerminal \cup {"absent"}
  /\ jobs'[j].state \notin {"scheduled", "absent"}
  /\ jobs'[j].rev = jobs[j].rev + 1

RunsAgain(j) ==
  /\ jobs[j].state # "absent" /\ jobs'[j].state = "waiting"
  /\ jobs'[j].rev = jobs[j].rev + 1
  /\ permits'[j] = permits[j] + 1

Created(j) ==
  jobs[j].state = "absent" /\ permits[j] = 0 /\ permits'[j] = 1 /\ jobs'[j].state = "scheduled"

JobMoves(j) ==
  \/ UNCHANGED permits /\ (Stays(j) \/ Deleted(j) \/ Moves(j))
  \/ permits'[j] = permits[j] /\ jobs'[j] = jobs[j]
  \/ RunsAgain(j)
  \/ Created(j)

LEMMA JobsSame ==
  ASSUME TypeInv, UNCHANGED <<jobs, permits>>
  PROVE  \A j \in Jobs : JobMoves(j)
BY DEF JobMoves

LEMMA TransitionMoves ==
  ASSUME TypeInv, NEW i \in Jobs, NEW rev, NEW to, to # "absent", transition_job(i, rev, to)
  PROVE  \A j \in Jobs : JobMoves(j)
<1>1. /\ UNCHANGED permits /\ jobs[i].rev = rev
      /\ jobs[i].state \notin JobTerminal \cup {"absent"} /\ to # "scheduled"
  BY DEF transition_job, CanTransition, job_transition, OneShotLegal, JobTerminal
<1>2. /\ jobs'[i].state = to /\ jobs'[i].rev = rev + 1
      /\ \A j \in Jobs \ {i} : jobs'[j] = jobs[j]
  BY DEF transition_job, TypeInv, TypeOK, StoreTypeOK, JobRow
<1>3. Moves(i)
  BY <1>1, <1>2 DEF Moves
<1> QED
  BY <1>1, <1>2, <1>3 DEF JobMoves

LEMMA UserMoves ==
  ASSUME TypeInv, NEW i \in Jobs, UserStep(i)
  PROVE  \A j \in Jobs : JobMoves(j)
<1> USE DEF TypeInv, TypeOK, StoreTypeOK
<1>1. CASE Submit(i)
  <2>1. \A j \in Jobs \ {i} : permits'[j] = permits[j] /\ jobs'[j] = jobs[j]
    BY <1>1 DEF Submit, create
  <2>2. Created(i)
    BY <1>1 DEF Submit, create, Created
  <2> QED
    BY <2>1, <2>2 DEF JobMoves
<1>2. CASE Rerun(i)
  <2>1. \A j \in Jobs \ {i} : permits'[j] = permits[j] /\ jobs'[j] = jobs[j]
    BY <1>2 DEF Rerun, prepare_rerun
  <2>2. permits'[i] = permits[i] + 1 /\ jobs[i].state # "absent"
    BY <1>2 DEF Rerun, prepare_rerun, JobTerminal
  <2>3. jobs'[i].state = "waiting" /\ jobs'[i].rev = jobs[i].rev + 1
    BY <1>2 DEF Rerun, prepare_rerun, JobRow
  <2> QED
    BY <2>1, <2>2, <2>3 DEF RunsAgain, JobMoves
<1>3. CASE Remove(i)
  <2>1. UNCHANGED permits
    BY <1>3 DEF Remove, hide_job
  <2>2. \A j \in Jobs : jobs'[j].state = jobs[j].state /\ jobs'[j].rev = jobs[j].rev
    BY <1>3 DEF Remove, hide_job, JobRow
  <2>3. \A j \in Jobs : jobs[j].rev \in Nat
    BY DEF JobRow
  <2> QED
    BY <2>1, <2>2, <2>3 DEF Stays, JobMoves
<1> QED
  BY <1>1, <1>2, <1>3 DEF UserStep

LEMMA CancelMoves ==
  ASSUME TypeInv, NEW c \in Cancellers, CancelStep(c) \/ CancelFault(c)
  PROVE  \A j \in Jobs : JobMoves(j)
<1>1. CASE CancelRequest(c) \/ CancelDirect(c) \/ CancelFinish(c)
  <2>1. can[c].job \in Jobs
    BY <1>1 DEF CancelRequest, CancelDirect, CancelFinish, TypeInv, Linked, CanLinked
  <2>2. PICK rev, to : transition_job(can[c].job, rev, to)
    BY <1>1 DEF CancelRequest, CancelDirect, CancelFinish
  <2>3. to # "absent"
    BY <2>2 DEF transition_job, CanTransition, job_transition, OneShotLegal
  <2> QED
    BY <2>1, <2>2, <2>3, TransitionMoves
<1>2. CASE ~(CancelRequest(c) \/ CancelDirect(c) \/ CancelFinish(c))
  <2>1. UNCHANGED <<jobs, permits>>
    BY <1>2 DEF CancelStep, CancelFault, CancelAbort, CancelSignal, CancelKill, CancelStoreStep,
                CancelBegin, CancelMoot, CancelDirectRefused, CancelCheck,
                CancelLoad, CancelCommit, CancelCommitRefused, CancelRecord,
                CancelRecordRefused, CancelPoll, CancelTimeout, CancelFinishMoot, storeVars,
                request_run_cancellation, record_run_terminal
  <2> QED
    BY <2>1, JobsSame
<1> QED
  BY <1>1, <1>2

(* The monitor only advances the job that it loaded.                       *)
LEMMA MonitorMoves ==
  ASSUME TypeInv, Loaded, NEW r \in Runs,
         MonitorStep(r) \/ CommandStep(r) \/ MonWake(r) \/ MonitorFault(r)
  PROVE  \A j \in Jobs : JobMoves(j)
<1>1. CASE MonFinish(r)
  <2> DEFINE i == runs[r].job
  <2>0. i \in Jobs /\ mon[r].pc = "finish" /\ jobs[i] \in JobRow
    BY <1>1 DEF MonFinish, TypeInv, TypeOK, StoreTypeOK, Linked, MonLinked
  <2>1. CASE FinishAdvances(r)
    <3>1. advance_recurring_job(i, mon[r].rev, mon[r].clock)
      BY <1>1, <2>1 DEF MonFinish
    <3>2. /\ UNCHANGED permits /\ jobs[i].rev = mon[r].rev /\ jobs[i].state # "absent"
          /\ jobs[i].state \notin JobTerminal
      BY <2>0, <3>1 DEF advance_recurring_job, CanAdvance, Loaded, LoadedJob
    <3>3. /\ jobs'[i].state = "waiting" /\ jobs'[i].rev = mon[r].rev + 1
          /\ \A j \in Jobs \ {i} : jobs'[j] = jobs[j]
      BY <2>0, <3>1 DEF advance_recurring_job, TypeInv, TypeOK, StoreTypeOK, JobRow
    <3> QED
      BY <3>2, <3>3 DEF Moves, JobMoves
  <2>2. CASE ~FinishAdvances(r)
    <3>1. transition_job(i, mon[r].rev, FinishTarget(r))
      BY <1>1, <2>2 DEF MonFinish
    <3>2. FinishTarget(r) # "absent"
      BY <3>1 DEF transition_job, CanTransition, job_transition, OneShotLegal
    <3> QED
      BY <2>0, <3>1, <3>2, TransitionMoves
  <2> QED
    BY <2>1, <2>2
<1>2. CASE ~MonFinish(r)
  <2>1. UNCHANGED <<jobs, permits>>
    BY <1>2 DEF MonitorStep, MonLoad, MonSpawn, MonMark, MonMarkRefused, MonReap, MonReapLost,
                MonRecord, MonRecordRefused, MonLoadJob, MonFinishRefused, CommandStep,
                CommandExit, MonWake, MonitorFault, MonSetupError, MonOutputError, MonCrash,
                storeVars, mark_run_running, record_run_terminal
  <2> QED
    BY <2>1, JobsSame
<1> QED
  BY <1>1, <1>2

LEMMA SupervisorMoves ==
  ASSUME TypeInv, Supervise \/ SupervisorFault \/ SupervisorStop
  PROVE  \A j \in Jobs : JobMoves(j)
<1>1. CASE ExecWait \/ ExecStart \/ ExecMark \/ ExecFailJob
  <2>1. PICK to : to # "absent" /\ exec.job \in Jobs /\ transition_job(exec.job, exec.rev, to)
    BY <1>1 DEF ExecWait, ExecStart, ExecMark, ExecMove, ExecFailJob, TypeInv, Linked, ExecLinked
  <2> QED
    BY <2>1, TransitionMoves
<1>2. CASE ApplyRecovery
  <2> SUFFICES ASSUME NEW j \in Jobs PROVE JobMoves(j)
    OBVIOUS
  <2>1. /\ UNCHANGED permits /\ StillValid(j) /\ jobs'[j] = Recovered(j) /\ jobs[j] \in JobRow
    BY <1>2 DEF ApplyRecovery, apply_recovery, TypeInv, TypeOK, StoreTypeOK
  <2>2. CASE plan[j].act \in {"interrupt", "missed"}
    <3>1. jobs[j].state \notin JobTerminal \cup {"absent"}
      BY <2>1, <2>2 DEF StillValid, Underway, Pending, JobTerminal
    <3>2. jobs'[j].state \in {"interrupted", "missed"} /\ jobs'[j].rev = jobs[j].rev + 1
      BY <2>1, <2>2 DEF Recovered, JobRow
    <3> QED
      BY <2>1, <3>1, <3>2 DEF Moves, JobMoves
  <2>3. CASE plan[j].act = "advance"
    <3>1. jobs'[j].state = jobs[j].state /\ jobs'[j].rev = jobs[j].rev + 1 /\ jobs[j].rev \in Nat
      BY <2>1, <2>3 DEF Recovered, JobRow
    <3> QED
      BY <2>1, <3>1 DEF Stays, JobMoves
  <2>4. CASE plan[j].act \notin {"interrupt", "missed", "advance"}
    <3>1. jobs'[j] = jobs[j]
      BY <2>1, <2>4 DEF Recovered
    <3> QED
      BY <2>1, <3>1 DEF JobMoves
  <2> QED
    BY <2>2, <2>3, <2>4
<1>3. CASE CleanupRecovery
  <2>1. UNCHANGED permits
    BY <1>3 DEF CleanupRecovery, cleanup_retention
  <2>2. \A j \in Jobs : jobs'[j] = jobs[j] \/ jobs'[j] = [jobs[j] EXCEPT !.state = "absent"]
    BY <1>3 DEF CleanupRecovery, cleanup_retention
  <2>3. \A j \in Jobs : jobs'[j] = jobs[j] \/ Deleted(j)
    BY <2>2 DEF TypeInv, TypeOK, StoreTypeOK, JobRow, Deleted
  <2> QED
    BY <2>1, <2>3 DEF JobMoves
<1>4. CASE ~(ExecWait \/ ExecStart \/ ExecMark \/ ExecFailJob \/ ApplyRecovery \/ CleanupRecovery)
  <2>1. UNCHANGED <<jobs, permits>>
    BY <1>4 DEF Supervise, SupervisorFault, SupervisorStop, SupervisorStep, RecoveryPlanned,
         ExecSpawn, RecoveryConflict, ExecClaim, claim_run, ExecRefused, ExecFailRun,
         record_run_terminal, ExecSpawnError, ExecStorageError, storeVars
  <2> QED
    BY <2>1, JobsSame
<1> QED
  BY <1>1, <1>2, <1>3, <1>4

LEMMA JobsMove ==
  ASSUME TypeInv, Loaded, [Next]_vars
  PROVE  \A j \in Jobs : JobMoves(j)
<1>1. CASE Tick \/ UNCHANGED vars
  BY <1>1, JobsSame DEF Tick, vars, storeVars
<1>2. ASSUME NEW i \in Jobs, ServeWake(i) \/ GiveUpWake(i) PROVE \A j \in Jobs : JobMoves(j)
  BY <1>2, JobsSame DEF ServeWake, GiveUpWake, WakeEnds, storeVars
<1> QED
  BY <1>1, <1>2, UserMoves, CancelMoves, SupervisorMoves, MonitorMoves DEF Next

(* A claimed run is the run of its job for good.                           *)
NewlyClaimed(r) ==
  /\ exec.pc = "claim" /\ runs[r].job = NoJob
  /\ exec'.pc = "mark" /\ exec'.job = exec.job /\ exec'.run = r /\ runs'[r].job = exec.job

LEMMA ClaimedStays ==
  ASSUME TypeInv, [Next]_vars
  PROVE  \A r \in Runs : runs'[r].job = runs[r].job \/ NewlyClaimed(r)
<1> DEFINE G == \A r \in Runs : runs'[r].job = runs[r].job \/ NewlyClaimed(r)
<1> USE DEF TypeInv, TypeOK, StoreTypeOK, RunRow
<1>1. ASSUME NEW j \in Jobs, UserStep(j) PROVE G
  BY <1>1 DEF UserStep, Submit, create, Rerun, prepare_rerun, Remove, hide_job
<1>2. ASSUME NEW c \in Cancellers, CancelStep(c) \/ CancelFault(c) PROVE G
  <2>1. CASE CancelCommit(c)
    BY <2>1 DEF CancelCommit, request_run_cancellation
  <2>2. CASE CancelRecord(c)
    BY <2>2 DEF CancelRecord, record_run_terminal
  <2>3. CASE ~(CancelCommit(c) \/ CancelRecord(c))
    <3>1. UNCHANGED runs
      BY <1>2, <2>3 DEF CancelStep, CancelFault, CancelAbort, CancelSignal, CancelKill,
           CancelStoreStep, CancelBegin, CancelRequest, CancelMoot, CancelDirect,
           CancelDirectRefused, CancelCheck, CancelLoad, CancelCommitRefused,
           CancelRecordRefused, CancelPoll, CancelTimeout, CancelFinish, CancelFinishMoot,
           transition_job, storeVars
    <3> QED
      BY <3>1
  <2> QED
    BY <2>1, <2>2, <2>3
<1>3. ASSUME NEW q \in Runs, MonitorStep(q) \/ CommandStep(q) \/ MonWake(q) \/ MonitorFault(q)
      PROVE  G
  <2>1. runs'[q].job = runs[q].job
    <3>1. CASE MonMark(q)
      BY <3>1 DEF MonMark, mark_run_running
    <3>2. CASE MonRecord(q)
      BY <3>2 DEF MonRecord, record_run_terminal
    <3>3. CASE ~(MonMark(q) \/ MonRecord(q))
      BY <1>3, <3>3 DEF MonitorStep, CommandStep, CommandExit, MonWake, MonitorFault,
           MonSetupError, MonOutputError, MonCrash, MonLoad, MonSpawn, MonMarkRefused, MonReap,
           MonReapLost, MonRecordRefused, MonLoadJob, MonFinish, MonFinishRefused, storeVars,
           transition_job, advance_recurring_job
    <3> QED
      BY <3>1, <3>2, <3>3
  <2> QED
    BY <1>3, <2>1, OwnRunOnly
<1>4. CASE Supervise \/ SupervisorFault \/ SupervisorStop
  <2>1. CASE ApplyRecovery
    BY <2>1 DEF ApplyRecovery, apply_recovery
  <2>2. CASE CleanupRecovery
    BY <2>2 DEF CleanupRecovery, cleanup_retention
  <2>3. CASE ExecClaim
    <3>1. PICK r \in NextRun : /\ claim_run(exec.job, exec.due, r)
                               /\ exec' = [exec EXCEPT !.pc = "mark", !.run = r]
      BY <2>3 DEF ExecClaim
    <3>2. r \in Runs /\ runs[r].job = NoJob
      BY <3>1 DEF NextRun
    <3>3. runs'[r].job = exec.job /\ \A q \in Runs \ {r} : runs'[q] = runs[q]
      BY <3>1, <3>2 DEF claim_run
    <3>4. exec.pc = "claim" /\ exec'.pc = "mark" /\ exec'.job = exec.job /\ exec'.run = r
      BY <2>3, <3>1 DEF ExecClaim, SupervisorTypeOK
    <3> QED
      BY <3>2, <3>3, <3>4 DEF NewlyClaimed
  <2>4. CASE ExecFailRun
    BY <2>4 DEF ExecFailRun, record_run_terminal
  <2>5. CASE ~(ApplyRecovery \/ CleanupRecovery \/ ExecClaim \/ ExecFailRun)
    <3>1. UNCHANGED runs
      BY <1>4, <2>5 DEF Supervise, SupervisorFault, SupervisorStop, SupervisorStep,
           RecoveryPlanned, ExecSpawn, RecoveryConflict, ExecWait, ExecStart, ExecMark, ExecMove,
           ExecRefused, ExecFailJob, ExecSpawnError, ExecStorageError, transition_job, storeVars
    <3> QED
      BY <3>1
  <2> QED
    BY <2>1, <2>2, <2>3, <2>4, <2>5
<1>5. ASSUME UNCHANGED runs PROVE G
  BY <1>5
<1>6. CASE Tick \/ UNCHANGED vars
  BY <1>5, <1>6 DEF Tick, vars, storeVars
<1>7. ASSUME NEW j \in Jobs, ServeWake(j) \/ GiveUpWake(j) PROVE G
  BY <1>5, <1>7 DEF ServeWake, GiveUpWake, WakeEnds, storeVars
<1> QED
  BY <1>1, <1>2, <1>3, <1>4, <1>6, <1>7 DEF Next

(* Only a monitor's own load brings it to the write that finishes the job. *)
LEMMA FinishesWhatItLoaded ==
  ASSUME TypeInv, [Next]_vars, NEW r \in Runs, mon'[r].pc = "finish"
  PROVE  mon'[r] = mon[r] \/ MonLoadJob(r)
<1> USE DEF TypeInv, TypeOK, MonitorTypeOK
<1>1. ASSUME NEW q \in Runs, MonitorStep(q) \/ CommandStep(q) \/ MonWake(q) \/ MonitorFault(q)
      PROVE  mon'[r] = mon[r] \/ MonLoadJob(r)
  <2>1. CASE q # r
    BY <1>1, <2>1, OwnRunOnly
  <2>2. CASE q = r /\ ~MonLoadJob(r)
    <3>1. \/ mon' = mon \/ Exits(r)
          \/ (\E pc \in {"spawn", "mark", "wait"} : Goes(r, pc))
          \/ (\E out : mon' = [mon EXCEPT ![r].pc = "record", ![r].out = out])
          \/ (\E end : mon' = [mon EXCEPT ![r].pc = "load_job", ![r].end = end])
          \/ mon' = [mon EXCEPT ![r] = [NoMonitor EXCEPT !.pc = AfterFinish(r)]]
      BY <1>1, <2>2 DEF MonitorStep, CommandStep, CommandExit, MonWake, MonitorFault,
           MonSetupError, MonOutputError, MonCrash, MonLoad, MonSpawn, MonMark, MonMarkRefused,
           MonReap, MonReapLost, MonRecord, MonRecordRefused, MonFinish, MonFinishRefused
    <3> QED
      BY <3>1 DEF Exits, Exited, Goes, NoMonitor, AfterFinish, MonState
  <2> QED
    BY <2>1, <2>2
<1>2. CASE ExecSpawn
  BY <1>2 DEF ExecSpawn, Goes, MonState
<1>3. CASE ~ExecSpawn /\ (Supervise \/ SupervisorFault \/ SupervisorStop)
  BY <1>3 DEF Supervise, SupervisorStep, RecoveryPlanned, SupervisorFault, SupervisorStop, monVars
<1>4. CASE Tick \/ UNCHANGED vars
  BY <1>4 DEF Tick, vars, monVars
<1>5. ASSUME NEW j \in Jobs, UserStep(j) \/ ServeWake(j) \/ GiveUpWake(j) PROVE mon'[r] = mon[r]
  BY <1>5 DEF UserStep, ServeWake, GiveUpWake, monVars
<1>6. ASSUME NEW c \in Cancellers, CancelStep(c) \/ CancelFault(c) PROVE mon'[r] = mon[r]
  BY <1>6 DEF CancelStep, CancelFault, CancelStoreStep, CancelSignal, CancelKill, monVars
<1> QED
  BY <1>1, <1>2, <1>3, <1>4, <1>5, <1>6 DEF Next

LEMMA LoadedStep ==
  ASSUME TypeInv, Stored, Loaded, [Next]_vars
  PROVE  Stored' /\ Loaded'
<1>1. \A j \in Jobs : JobMoves(j)
  BY JobsMove
<1>2. \A j \in Jobs : jobs[j].rev \in Nat /\ permits[j] \in Nat
  BY DEF TypeInv, TypeOK, StoreTypeOK, JobRow
<1>3. ASSUME NEW j \in Jobs, permits'[j] = 0 PROVE jobs'[j].state = "absent"
  BY <1>1, <1>2, <1>3 DEF Stored, JobMoves, Stays, Deleted, Moves, RunsAgain, Created
<1>4. ASSUME NEW r \in Runs, mon'[r].pc = "finish" PROVE LoadedJob(r)'
  <2>1. CASE MonLoadJob(r)
    <3> DEFINE job == jobs[runs[r].job]
    <3>0. runs[r].job \in Jobs /\ mon[r] \in MonState
      BY <2>1 DEF MonLoadJob, TypeInv, TypeOK, MonitorTypeOK, Linked, MonLinked
    <3>1. /\ UNCHANGED <<jobs, runs, permits>>
          /\ job.state \notin JobTerminal \cup {"absent"}
          /\ mon' = [mon EXCEPT ![r].pc = "finish", ![r].rev = job.rev,
                                ![r].state = job.state, ![r].clock = ClockRead(r)]
      BY <1>4, <2>1 DEF MonLoadJob, storeVars, Exits, Exited, NoMonitor, AfterFinish, TypeInv,
                        TypeOK, MonitorTypeOK
    <3>2. mon'[r].rev = job.rev /\ mon'[r].state = job.state
      BY <3>0, <3>1 DEF TypeInv, TypeOK, MonitorTypeOK, MonState
    <3>3. permits[runs[r].job] > 0 /\ job.rev \in Nat
      BY <1>2, <3>0, <3>1 DEF Stored
    <3>4. UNCHANGED <<jobs, runs, permits>> /\ job.state \notin JobTerminal
      BY <3>1
    <3> QED
      BY <3>2, <3>3, <3>4 DEF LoadedJob
  <2>2. CASE mon'[r] = mon[r]
    <3>0. PICK i \in Jobs : i = runs[r].job
      BY <1>4, <2>2 DEF TypeInv, Linked, MonLinked
    <3>1. runs'[r].job = i
      BY <3>0, ClaimedStays, JobsAssumption DEF NewlyClaimed
    <3>2. LoadedJob(r) /\ mon[r].rev \in Nat
      BY <1>4, <2>2 DEF Loaded, TypeInv, TypeOK, MonitorTypeOK, MonState
    <3>3. /\ permits'[i] > 0
          /\ mon[r].rev <= jobs'[i].rev
          /\ mon[r].rev = jobs'[i].rev => jobs'[i].state \in {mon[r].state, "absent"}
      <4>1. /\ permits[i] > 0 /\ permits[i] \in Nat /\ jobs[i].rev \in Nat /\ mon[r].rev \in Nat
            /\ mon[r].rev <= jobs[i].rev
            /\ mon[r].rev = jobs[i].rev => jobs[i].state \in {mon[r].state, "absent"}
            /\ JobMoves(i)
        BY <1>1, <1>2, <3>0, <3>2 DEF LoadedJob
      <4>2. jobs'[i].rev \in Nat
        BY StepTypes DEF TypeInv, TypeOK, StoreTypeOK, JobRow
      <4> QED
        BY <4>1, <4>2 DEF JobMoves, Stays, Deleted, Moves, RunsAgain, Created
    <3> QED
      BY <2>2, <3>1, <3>2, <3>3, <3>0 DEF LoadedJob
  <2> QED
    BY <1>4, <2>1, <2>2, FinishesWhatItLoaded
<1> QED
  BY <1>3, <1>4 DEF Stored, Loaded

LEMMA LoadedInvariant == Spec => [](Stored /\ Loaded)
<1>1. Init => Stored /\ Loaded
  BY DEF Init, StoreInit, MonitorInit, NoMonitor, Stored, Loaded
<1>2. TypeInv /\ Stored /\ Loaded /\ [Next]_vars => Stored' /\ Loaded'
  BY LoadedStep
<1> QED
  BY <1>1, <1>2, TypeInvariant, PTL DEF Spec

(* A terminal job stays as it is until a user runs it again or retention   *)
(* deletes it, whatever monitors, cancellers and recoveries are on their   *)
(* way, and whichever of them was told otherwise before.                   *)
THEOREM TerminalJobStaysHolds == Spec => TerminalJobStays
<1>1. TypeInv /\ Loaded /\ [Next]_vars =>
        [\A j \in Jobs : jobs[j].state \in JobTerminal =>
           \/ jobs'[j].state \in {jobs[j].state, "absent"}
           \/ permits'[j] = permits[j] + 1]_vars
  BY JobsMove DEF JobMoves, Stays, Deleted, Moves, RunsAgain, Created, JobTerminal
<1> QED
  BY <1>1, LoadedInvariant, TypeInvariant, PTL DEF Spec, TerminalJobStays

-------------------------------------------------------------------------------
(* Waiting jobs.  A job with a run was asked for and is never "scheduled"  *)
(* again, so the wake of its monitor finds it waiting or over.             *)
Asked(j) == permits[j] > 0 /\ jobs[j].state # "scheduled"

Begun == {"start", "claim", "mark", "spawn", "fail_run", "fail_job"}

AskedFirst ==
  /\ \A r \in Runs : runs[r].job # NoJob => Asked(runs[r].job)
  /\ exec.pc \in Begun => Asked(exec.job)

LEMMA AskedStays ==
  ASSUME TypeInv, NEW j \in Jobs, JobMoves(j), Asked(j)
  PROVE  Asked(j)'
<1>1. permits[j] \in Nat
  BY DEF TypeInv, TypeOK, StoreTypeOK
<1> QED
  BY <1>1 DEF Asked, JobMoves, Stays, Deleted, Moves, RunsAgain, Created

(* What may happen to the execution in progress.                           *)
LEMMA ExecutionSteps ==
  ASSUME [Next]_vars
  PROVE  \/ UNCHANGED exec \/ (\E j \in Jobs : ExecLoad(j)) \/ ExecWait
         \/ ExecStart \/ ExecMark \/ ExecClaim \/ ExecSpawnError \/ ExecFailRun
         \/ Stopped \/ EndBatch \/ Done \/ Failed \/ PopDue \/ ExecStorageError
BY DEF Next, vars, Tick, UserStep, ServeWake, GiveUpWake, Wake, CancelStep, CancelFault,
       CancelStoreStep, CancelSignal, CancelKill, MonitorStep, CommandStep, MonWake, MonitorFault,
       Supervise, SupervisorStep, RecoveryPlanned, PlanRecovery, ExecSpawn, SupervisorFault,
       SupervisorStop, LoadActiveRuns, RefuseRecovery, ApplyRecovery, RecoveryConflict,
       CleanupRecovery, ExecRefused, ExecFailJob, supVars

(* How an execution gets to work on a job.                                 *)
ExecBegins ==
  \/ exec.pc \in Begun /\ exec'.job = exec.job
  \/ exec'.job \in Jobs /\ jobs[exec'.job].state = "waiting"
  \/ exec'.job \in Jobs /\ jobs'[exec'.job].state = "waiting"

LEMMA ExecutionBegins ==
  ASSUME TypeInv, [Next]_vars, exec'.pc \in Begun
  PROVE  ExecBegins
<1> USE DEF TypeInv, TypeOK, SupervisorTypeOK, Begun
<1>1. CASE UNCHANGED exec
  BY <1>1 DEF ExecBegins
<1>2. CASE \E j \in Jobs : ExecLoad(j)
  <2>1. PICK j \in Jobs : ExecLoad(j)
    BY <1>2
  <2>2. CASE jobs[j].state = "waiting"
    BY <2>1, <2>2 DEF ExecLoad, ExecBegins
  <2>3. CASE jobs[j].state # "waiting"
    <3>1. exec'.pc \in {"wait", "batch"}
      BY <2>1, <2>3 DEF ExecLoad
    <3> QED
      BY <3>1
  <2> QED
    BY <2>2, <2>3
<1>3. CASE ExecWait
  <2>1. exec.job \in Jobs /\ exec'.job = exec.job
    BY <1>3 DEF ExecWait, ExecMove, Linked, ExecLinked
  <2>2. jobs'[exec.job].state = "waiting"
    BY <1>3, <2>1 DEF ExecWait, ExecMove, transition_job, StoreTypeOK, JobRow
  <2> QED
    BY <2>1, <2>2 DEF ExecBegins
<1>4. CASE ExecStart \/ ExecMark \/ ExecClaim \/ ExecSpawnError \/ ExecFailRun
  BY <1>4 DEF ExecStart, ExecMark, ExecMove, ExecClaim, ExecSpawnError, ExecFailRun, ExecBegins
<1>5. ASSUME exec'.pc \in {"idle", "batch"} PROVE FALSE
  BY <1>5
<1>6. CASE Stopped \/ EndBatch
  BY <1>5, <1>6 DEF Stopped, EndBatch, Idle
<1>7. CASE Done \/ Failed
  BY <1>5, <1>7 DEF Done, Failed, Idle
<1>8. CASE PopDue
  BY <1>5, <1>8 DEF PopDue
<1>9. CASE ExecStorageError
  <2>1. CASE exec.pc = "batch" /\ ~Failed
    <3>1. exec'.pc = exec.pc
      BY <1>9, <2>1 DEF ExecStorageError
    <3> QED
      BY <1>5, <2>1, <3>1
  <2> QED
    BY <1>7, <1>9, <2>1 DEF ExecStorageError
<1> QED
  BY <1>1, <1>2, <1>3, <1>4, <1>6, <1>7, <1>8, <1>9, ExecutionSteps

LEMMA AskedStep ==
  ASSUME TypeInv, Stored, Loaded, AskedFirst, [Next]_vars
  PROVE  AskedFirst'
<1>1. \A j \in Jobs : JobMoves(j)
  BY JobsMove
<1>2. \A j \in Jobs : Asked(j) => Asked(j)'
  BY <1>1, AskedStays
<1>3. TypeInv' /\ Stored'
  BY StepTypes, LoadedStep
<1>4. ASSUME NEW r \in Runs, runs'[r].job # NoJob PROVE Asked(runs[r].job)'
  <2>1. PICK j \in Jobs : j = runs'[r].job
    BY <1>3, <1>4 DEF TypeInv, TypeOK, StoreTypeOK, RunRow
  <2>2. Asked(j)
    BY <1>4, <2>1, ClaimedStays DEF AskedFirst, NewlyClaimed, Begun
  <2>3. permits'[j] > 0 /\ jobs'[j].state # "scheduled"
    BY <1>2, <2>2 DEF Asked
  <2> QED
    BY <2>1, <2>3 DEF Asked
<1>5. ASSUME exec'.pc \in Begun PROVE Asked(exec.job)'
  <2>1. PICK j \in Jobs : j = exec'.job
    BY <1>3, <1>5 DEF TypeInv, Linked, ExecLinked, Begun
  <2>2. ASSUME jobs[j].state = "waiting" PROVE Asked(j)
    BY <2>2 DEF Stored, Asked, TypeInv, TypeOK, StoreTypeOK
  <2>3. ASSUME jobs'[j].state = "waiting" PROVE Asked(j)'
    BY <1>3, <2>3 DEF Stored, Asked, TypeInv, TypeOK, StoreTypeOK
  <2>4. Asked(j)'
    BY <1>2, <1>5, <2>1, <2>2, <2>3, ExecutionBegins DEF ExecBegins, AskedFirst
  <2>5. permits'[j] > 0 /\ jobs'[j].state # "scheduled"
    BY <2>4 DEF Asked
  <2> QED
    BY <2>1, <2>5 DEF Asked
<1> QED
  BY <1>4, <1>5 DEF AskedFirst

(* Who will look at a job that waits: somebody on the way to wake the      *)
(* supervisor (or who gave up), the plan of a recovery, or the loop.  An   *)
(* execution holds the job only until it is starting.                      *)
Waker(j) == j \in wakes \cup dropped \/ \E r \in RunsOf(j) : mon[r].pc = "wake"

InHand(j) ==
  \/ heap[j] # NoDue
  \/ j \in exec.batch \cup exec.failed
  \/ exec.pc \in {"wait", "start"} /\ exec.job = j

Planned(j) ==
  \/ sup \in {"down", "jobs"}
  \/ sup = "apply" /\ (plan[j].at # NoDue \/ plan[j].act = "missed")
  \/ sup = "clean" /\ plan[j].at # NoDue
  \/ sup = "up" /\ InHand(j)

Watched ==
  /\ exec.pc = "idle" => exec.batch = {}
  /\ \A j \in Jobs : jobs[j].state \in Pending => Waker(j) \/ Planned(j)

(* A step that starts no wait without a waker.                             *)
WaitsWithWaker ==
  \A j \in Jobs : jobs'[j].state \in Pending => jobs[j].state \in Pending \/ Waker(j)'

LEMMA WatchKept ==
  ASSUME TypeInv, Watched, WaitsWithWaker, UNCHANGED <<sup, plan>>,
         exec'.pc = "idle" => exec'.batch = {},
         \A j \in Jobs : jobs'[j].state \in Pending /\ Waker(j) => Waker(j)' \/ Planned(j)',
         \A j \in Jobs : jobs'[j].state \in Pending /\ sup = "up" /\ InHand(j) => InHand(j)'
  PROVE  Watched'
<1> SUFFICES ASSUME NEW j \in Jobs, jobs'[j].state \in Pending, ~Waker(j)'
             PROVE  Planned(j)'
  BY DEF Watched
<1>1. jobs[j].state \in Pending
  BY DEF WaitsWithWaker
<1>2. CASE Waker(j)
  BY <1>2
<1>3. CASE Planned(j)
  BY <1>3 DEF Planned
<1> QED
  BY <1>1, <1>2, <1>3 DEF Watched

(* What keeps a waker.                                                     *)
LEMMA WakersKept ==
  ASSUME TypeInv, UNCHANGED mon, wakes \cup dropped \subseteq wakes' \cup dropped',
         \A r \in Runs : runs'[r].job = runs[r].job \/ mon[r].pc # "wake"
  PROVE  \A j \in Jobs : Waker(j) => Waker(j)'
BY DEF Waker, RunsOf

NoNewWait == \A j \in Jobs : jobs'[j].state \in Pending => jobs[j].state \in Pending

LEMMA TransitionStartsNoWait ==
  ASSUME TypeInv, NEW j \in Jobs, NEW rev, NEW to, transition_job(j, rev, to)
  PROVE  NoNewWait
<1>1. to \in Pending => jobs[j].state \in Pending
  BY DEF transition_job, CanTransition, job_transition, OneShotLegal, Pending
<1>2. \A i \in Jobs : jobs'[i].state = IF i = j THEN to ELSE jobs[i].state
  BY DEF transition_job, TypeInv, TypeOK, StoreTypeOK, JobRow
<1> QED
  BY <1>1, <1>2 DEF NoNewWait

(* A step that leaves the supervisor and the monitors alone.               *)
LEMMA WatchOutside ==
  ASSUME TypeInv, Watched, WaitsWithWaker, UNCHANGED <<supVars, mon>>,
         wakes \cup dropped \subseteq wakes' \cup dropped',
         \A r \in Runs : runs'[r].job = runs[r].job
  PROVE  Watched'
<1>1. \A j \in Jobs : Waker(j) => Waker(j)'
  BY WakersKept
<1>2. UNCHANGED <<sup, plan, heap, exec>>
  BY DEF supVars
<1> QED
  BY <1>1, <1>2, WatchKept DEF Watched, InHand

(* Users and cancellers.                                                   *)
LEMMA WatchUser ==
  ASSUME TypeInv, Watched, NEW j \in Jobs, UserStep(j)
  PROVE  Watched'
<1> USE DEF TypeInv, TypeOK, StoreTypeOK
<1>1. UNCHANGED <<supVars, mon, dropped>> /\ wakes \subseteq wakes'
  BY DEF UserStep, Submit, Rerun, Remove, supVars, monVars, cliVars
<1>2. \A r \in Runs : runs'[r].job = runs[r].job
  BY DEF UserStep, Submit, create, Rerun, prepare_rerun, Remove, hide_job, RunRow
<1>3. WaitsWithWaker
  <2>1. CASE Submit(j) \/ Rerun(j)
    <3>1. j \in wakes' /\ \A i \in Jobs \ {j} : jobs'[i] = jobs[i]
      BY <2>1 DEF Submit, create, Rerun, prepare_rerun
    <3> QED
      BY <3>1 DEF WaitsWithWaker, Waker
  <2>2. CASE Remove(j)
    BY <2>2 DEF Remove, hide_job, JobRow, WaitsWithWaker
  <2> QED
    BY <2>1, <2>2 DEF UserStep
<1> QED
  BY <1>1, <1>2, <1>3, WatchOutside

LEMMA WatchCancel ==
  ASSUME TypeInv, Watched, NEW c \in Cancellers, CancelStep(c) \/ CancelFault(c)
  PROVE  Watched'
<1>1. UNCHANGED <<supVars, mon, wakes, dropped>>
  BY DEF CancelStep, CancelFault, CancelAbort, CancelSignal, CancelKill, CancelStoreStep,
         CancelBegin, CancelRequest, CancelMoot, CancelDirect, CancelDirectRefused, CancelCheck,
         CancelLoad, CancelCommit, CancelCommitRefused, CancelRecord, CancelRecordRefused,
         CancelPoll, CancelTimeout, CancelFinish, CancelFinishMoot, CanFrame, supVars, monVars
<1>2. NoNewWait
  <2>1. CASE CancelRequest(c) \/ CancelDirect(c) \/ CancelFinish(c)
    <3>1. can[c].job \in Jobs /\ \E rev, to : transition_job(can[c].job, rev, to)
      BY <2>1 DEF CancelRequest, CancelDirect, CancelFinish, TypeInv, Linked, CanLinked
    <3> QED
      BY <3>1, TransitionStartsNoWait
  <2>2. CASE ~(CancelRequest(c) \/ CancelDirect(c) \/ CancelFinish(c))
    <3>1. UNCHANGED jobs
      BY <2>2 DEF CancelStep, CancelFault, CancelAbort, CancelSignal, CancelKill,
           CancelStoreStep, CancelBegin, CancelMoot, CancelDirectRefused, CancelCheck,
           CancelLoad, CancelCommit, CancelCommitRefused, CancelRecord,
           CancelRecordRefused, CancelPoll, CancelTimeout, CancelFinishMoot, storeVars,
           request_run_cancellation, record_run_terminal
    <3> QED
      BY <3>1 DEF NoNewWait
  <2> QED
    BY <2>1, <2>2
<1>3. \A r \in Runs : runs'[r].job = runs[r].job
  <2>1. CASE CancelCommit(c)
    BY <2>1 DEF CancelCommit, request_run_cancellation, TypeInv, TypeOK, StoreTypeOK, RunRow
  <2>2. CASE CancelRecord(c)
    BY <2>2 DEF CancelRecord, record_run_terminal, TypeInv, TypeOK, StoreTypeOK, RunRow
  <2>3. CASE ~(CancelCommit(c) \/ CancelRecord(c))
    BY <2>3 DEF CancelStep, CancelFault, CancelAbort, CancelSignal, CancelKill,
         CancelStoreStep, CancelBegin, CancelRequest, CancelMoot, CancelDirect,
         CancelDirectRefused, CancelCheck, CancelLoad, CancelCommitRefused,
         CancelRecordRefused, CancelPoll, CancelTimeout, CancelFinish, CancelFinishMoot,
         transition_job, storeVars
  <2> QED
    BY <2>1, <2>2, <2>3
<1> QED
  BY <1>1, <1>2, <1>3, WatchOutside DEF NoNewWait, WaitsWithWaker

(* A wake that is served puts the job into the heap.                       *)
LEMMA WakeQueues ==
  ASSUME TypeInv, NEW j \in Jobs, Wake(j)
  PROVE  /\ sup = "up" /\ UNCHANGED <<sup, plan, exec>>
         /\ jobs[j].state \in Pending => heap'[j] # NoDue
         /\ \A i \in Jobs : heap[i] # NoDue => heap'[i] # NoDue
<1> USE DEF TypeInv, TypeOK
<1>1. reconcile_wall_schedule(jobs[j].due) # NoDue
  <2>1. jobs[j].due \in Nat /\ now \in Nat
    BY DEF StoreTypeOK, JobRow
  <2> QED
    BY <2>1 DEF reconcile_wall_schedule, NoDue
<1>2. /\ sup = "up" /\ UNCHANGED <<sup, plan, exec>>
      /\ heap' = IF jobs[j].state \in JobTerminal \cup {"absent"} THEN heap
                 ELSE [heap EXCEPT ![j] = reconcile_wall_schedule(jobs[j].due)]
  BY DEF Wake
<1>3. heap \in [Jobs -> Nat \cup {NoDue}]
  BY DEF SupervisorTypeOK
<1> QED
  BY <1>1, <1>2, <1>3 DEF Pending, JobTerminal

LEMMA WatchWake ==
  ASSUME TypeInv, Watched, NEW j \in Jobs, ServeWake(j) \/ GiveUpWake(j)
  PROVE  Watched'
<1>1. UNCHANGED <<jobs, runs, mon>> /\ wakes' = wakes \ {j} /\ dropped \subseteq dropped'
  BY DEF ServeWake, GiveUpWake, WakeEnds, storeVars, monVars
<1>2. CASE GiveUpWake(j)
  <2>1. UNCHANGED supVars /\ wakes \cup dropped \subseteq wakes' \cup dropped'
    BY <1>1, <1>2 DEF GiveUpWake
  <2> QED
    BY <1>1, <2>1, WatchOutside DEF WaitsWithWaker
<1>3. CASE ServeWake(j)
  <2>1. /\ sup = "up" /\ UNCHANGED <<sup, plan, exec>>
        /\ jobs[j].state \in Pending => heap'[j] # NoDue
        /\ \A i \in Jobs : heap[i] # NoDue => heap'[i] # NoDue
    BY <1>3, WakeQueues DEF ServeWake
  <2>2. \A i \in Jobs : Waker(i) => Waker(i)' \/ i = j
    BY <1>1 DEF Waker, RunsOf
  <2>3. \A i \in Jobs : InHand(i) => InHand(i)'
    BY <2>1 DEF InHand
  <2>4. jobs'[j].state \in Pending => Planned(j)'
    BY <1>1, <2>1 DEF Planned, InHand
  <2>5. WaitsWithWaker /\ (exec'.pc = "idle" => exec'.batch = {})
    BY <1>1, <2>1 DEF WaitsWithWaker, Watched
  <2> QED
    BY <2>1, <2>2, <2>3, <2>4, <2>5, WatchKept
<1> QED
  BY <1>2, <1>3

(* A monitor that made a recurring job wait wakes the supervisor: it gets  *)
(* through, or no supervisor listens and the next one will recover.        *)
LEMMA WatchMonWake ==
  ASSUME TypeInv, AskedFirst, Watched, NEW r \in Runs, MonWake(r)
  PROVE  Watched'
<1> USE DEF TypeInv, TypeOK
<1>0. PICK j \in Jobs : j = runs[r].job
  BY DEF MonWake, Linked, MonLinked
<1>1. UNCHANGED <<jobs, runs, wakes, dropped>> /\ mon' = [mon EXCEPT ![r] = Exited]
  BY DEF MonWake, Exits, storeVars, cliVars
<1>2. \A q \in Runs \ {r} : mon'[q] = mon[q]
  BY <1>1 DEF MonitorTypeOK
<1>3. \A i \in Jobs : Waker(i) => Waker(i)' \/ i = j
  BY <1>0, <1>1, <1>2 DEF Waker, RunsOf
<1>4. WaitsWithWaker
  BY <1>1 DEF WaitsWithWaker
<1>5. jobs[j].state \in Pending => jobs[j].state = "waiting"
  BY <1>0, JobsAssumption DEF AskedFirst, Asked, Pending
<1>6. CASE Wake(j)
  <2>1. /\ sup = "up" /\ UNCHANGED <<sup, plan, exec>>
        /\ jobs[j].state \in Pending => heap'[j] # NoDue
        /\ \A i \in Jobs : heap[i] # NoDue => heap'[i] # NoDue
    BY <1>6, WakeQueues
  <2>2. \A i \in Jobs : InHand(i) => InHand(i)'
    BY <2>1 DEF InHand
  <2>3. jobs'[j].state \in Pending => Planned(j)'
    BY <1>1, <2>1 DEF Planned, InHand
  <2>4. exec'.pc = "idle" => exec'.batch = {}
    BY <2>1 DEF Watched
  <2> QED
    BY <1>3, <1>4, <2>1, <2>2, <2>3, <2>4, WatchKept
<1>7. CASE ~Wake(j)
  <2>1. UNCHANGED <<sup, plan, heap, exec>> /\ (sup = "down" \/ jobs[j].state \notin Pending)
    BY <1>0, <1>5, <1>7 DEF MonWake, supVars
  <2>2. \A i \in Jobs : InHand(i) => InHand(i)'
    BY <2>1 DEF InHand
  <2>3. jobs'[j].state \in Pending => Planned(j)'
    BY <1>1, <2>1 DEF Planned
  <2>4. exec'.pc = "idle" => exec'.batch = {}
    BY <2>1 DEF Watched
  <2> QED
    BY <1>3, <1>4, <2>1, <2>2, <2>3, <2>4, WatchKept
<1> QED
  BY <1>6, <1>7

LEMMA WatchMonitor ==
  ASSUME TypeInv, Watched, NEW r \in Runs, MonitorStep(r) \/ CommandStep(r) \/ MonitorFault(r)
  PROVE  Watched'
<1> USE DEF TypeInv, TypeOK
<1>1. UNCHANGED <<sup, plan, heap, exec, wakes>> /\ dropped \subseteq dropped'
  BY DEF MonitorStep, CommandStep, MonitorFault, supVars, cliVars
<1>2. /\ \A q \in Runs \ {r} : mon'[q] = mon[q] /\ runs'[q] = runs[q]
      /\ runs'[r].job = runs[r].job
  <2>1. \A q \in Runs \ {r} : mon'[q] = mon[q] /\ runs'[q] = runs[q]
    BY OwnRunOnly
  <2>2. CASE MonMark(r)
    BY <2>1, <2>2 DEF MonMark, mark_run_running, StoreTypeOK, RunRow
  <2>3. CASE MonRecord(r)
    BY <2>1, <2>3 DEF MonRecord, record_run_terminal, StoreTypeOK, RunRow
  <2>4. CASE ~(MonMark(r) \/ MonRecord(r))
    BY <2>1, <2>4 DEF MonitorStep, CommandStep, CommandExit, MonitorFault, MonSetupError,
         MonOutputError, MonCrash, MonLoad, MonSpawn, MonMarkRefused, MonReap, MonReapLost,
         MonRecordRefused, MonLoadJob, MonFinish, MonFinishRefused, storeVars, transition_job,
         advance_recurring_job
  <2> QED
    BY <2>2, <2>3, <2>4
<1>3. mon[r].pc = "wake" => mon' = mon \/ runs[r].job \in dropped'
  BY DEF MonitorStep, CommandStep, CommandExit, MonitorFault, MonLoad, MonSpawn, MonMark,
         MonMarkRefused, MonReap, MonReapLost, MonRecord, MonRecordRefused, MonLoadJob, MonFinish,
         MonFinishRefused
<1>4. \A j \in Jobs : Waker(j) => Waker(j)'
  BY <1>1, <1>2, <1>3 DEF Waker, RunsOf
<1>5. WaitsWithWaker
  <2>1. CASE MonFinish(r)
    <3>0. runs[r].job \in Jobs
      BY <2>1 DEF MonFinish, Linked, MonLinked
    <3>1. CASE FinishAdvances(r)
      <4>1. /\ runs[r].job \in Recurring /\ \A i \in Jobs \ {runs[r].job} : jobs'[i] = jobs[i]
            /\ mon' = [mon EXCEPT ![r] = [NoMonitor EXCEPT !.pc = AfterFinish(r)]]
        BY <2>1, <3>1 DEF MonFinish, FinishAdvances, advance_recurring_job, StoreTypeOK
      <4>2. mon'[r].pc = "wake"
        BY <4>1 DEF AfterFinish, NoMonitor, MonitorTypeOK
      <4>3. \A j \in Jobs : j = runs[r].job => Waker(j)'
        BY <1>2, <4>2 DEF Waker, RunsOf
      <4> QED
        BY <4>1, <4>3 DEF WaitsWithWaker
    <3>2. CASE ~FinishAdvances(r)
      BY <2>1, <3>0, <3>2, TransitionStartsNoWait DEF MonFinish, NoNewWait, WaitsWithWaker
    <3> QED
      BY <3>1, <3>2
  <2>2. CASE ~MonFinish(r)
    <3>1. UNCHANGED jobs
      BY <2>2 DEF MonitorStep, MonLoad, MonSpawn, MonMark, MonMarkRefused, MonReap, MonReapLost,
                MonRecord, MonRecordRefused, MonLoadJob, MonFinishRefused, CommandStep,
                CommandExit, MonitorFault, MonSetupError, MonOutputError, MonCrash,
                storeVars, mark_run_running, record_run_terminal
    <3> QED
      BY <3>1 DEF WaitsWithWaker
  <2> QED
    BY <2>1, <2>2
<1>6. \A j \in Jobs : InHand(j) => InHand(j)'
  BY <1>1 DEF InHand
<1>7. exec'.pc = "idle" => exec'.batch = {}
  BY <1>1 DEF Watched
<1> QED
  BY <1>1, <1>4, <1>5, <1>6, <1>7, WatchKept

(* What recovery plans for a job that waits: an instant for the heap, or   *)
(* that it missed its time.                                                *)
LEMMA WaitingIsPlanned ==
  ASSUME TypeInv, NEW j \in Jobs, jobs[j].state \in Pending, NEW alive
  PROVE  \/ plan_recovery(alive)[j].at # NoDue
         \/ plan_recovery(alive)[j].act = "missed"
<1> DEFINE after == next_fixed_rate_utc(jobs[j].anchor, wall, Interval)
<1>1. jobs[j].due \in Nat /\ wall \in Nat /\ jobs[j].anchor \in Nat
  BY DEF TypeInv, TypeOK, StoreTypeOK, SupervisorTypeOK, JobRow
<1>2. after \in Nat
  BY <1>1, NextFixedRateType, JobsAssumption
<1>3. plan_recovery(alive)[j] = reconcile_waiting(j)
  BY DEF plan_recovery, Pending, Underway
<1>4. ASSUME NEW n \in Nat PROVE n # NoDue
  BY DEF NoDue
<1> HIDE DEF after
<1>5. \/ reconcile_waiting(j) = [Leave EXCEPT !.at = jobs[j].due]
      \/ reconcile_waiting(j) = [Leave EXCEPT !.at = wall]
      \/ \E at \in {wall, after} :
           reconcile_waiting(j) = [Leave EXCEPT !.act = "advance", !.rev = jobs[j].rev,
                                                !.next = after, !.at = at]
      \/ reconcile_waiting(j) = [Leave EXCEPT !.act = "missed", !.rev = jobs[j].rev]
  BY DEF reconcile_waiting, deadline, after
<1> QED
  BY <1>1, <1>2, <1>3, <1>4, <1>5 DEF Leave

(* Recovery hands every job that waits on to the loop.                     *)
LEMMA WatchRecovery ==
  ASSUME TypeInv, Watched, UNCHANGED <<mon, wakes>>,
         \/ LoadActiveRuns /\ UNCHANGED <<storeVars, dropped>>
         \/ RecoveryPlanned
         \/ (ApplyRecovery \/ CleanupRecovery) /\ UNCHANGED dropped
         \/ Stopped /\ UNCHANGED <<storeVars, dropped>>
  PROVE  Watched'
<1> USE DEF TypeInv, TypeOK
<1>1. CASE LoadActiveRuns \/ Stopped
  BY <1>1 DEF LoadActiveRuns, Stopped, Idle, Watched, Planned
<1>2. CASE RecoveryPlanned
  <2>1. /\ UNCHANGED <<jobs, exec>> /\ sup' = "apply" /\ plan' = plan_recovery(LiveMonitors)
    BY <1>2 DEF RecoveryPlanned, PlanRecovery, storeVars
  <2>2. \A j \in Jobs : jobs[j].state \in Pending => plan'[j].at # NoDue \/ plan'[j].act = "missed"
    BY <2>1, WaitingIsPlanned
  <2> QED
    BY <2>1, <2>2 DEF Watched, Planned
<1>3. CASE ApplyRecovery
  <2>1. UNCHANGED <<plan, exec, wakes, dropped, mon>> /\ sup = "apply" /\ sup' = "clean"
    BY <1>3 DEF ApplyRecovery, LoadActiveRuns, RecoveryPlanned, PlanRecovery, Stopped
  <2>2. \A r \in Runs : runs'[r].job = runs[r].job
    BY <1>3 DEF ApplyRecovery, apply_recovery, StoreTypeOK, RunRow
  <2>3. ASSUME NEW j \in Jobs, jobs'[j].state \in Pending
        PROVE  jobs[j].state \in Pending /\ plan[j].act # "missed"
    <3>1. jobs'[j] = Recovered(j) /\ jobs[j] \in JobRow
      BY <1>3 DEF ApplyRecovery, apply_recovery, StoreTypeOK
    <3>2. CASE plan[j].act \in {"interrupt", "missed"}
      <4>1. jobs'[j].state \in {"interrupted", "missed"}
        BY <3>1, <3>2 DEF Recovered, JobRow
      <4> QED
        BY <2>3, <4>1 DEF Pending
    <3>3. CASE plan[j].act \notin {"interrupt", "missed"}
      <4>1. jobs'[j].state = jobs[j].state
        BY <3>1, <3>3 DEF Recovered, JobRow
      <4> QED
        BY <2>3, <3>3, <4>1
    <3> QED
      BY <3>2, <3>3
  <2>4. \A j \in Jobs : Waker(j) => Waker(j)'
    BY <2>1, <2>2, WakersKept
  <2>5. \A j \in Jobs : jobs'[j].state \in Pending => Waker(j)' \/ plan[j].at # NoDue
    BY <2>1, <2>3, <2>4 DEF Watched, Planned
  <2> QED
    BY <2>1, <2>5 DEF Watched, Planned
<1>4. CASE CleanupRecovery
  <2>1. /\ UNCHANGED <<exec, wakes, dropped, mon>> /\ sup = "clean" /\ sup' = "up"
        /\ heap' = [j \in Jobs |-> plan[j].at]
    BY <1>4 DEF CleanupRecovery, LoadActiveRuns, RecoveryPlanned, PlanRecovery, Stopped
  <2>2. \A r \in Runs : runs'[r].job = runs[r].job
    BY <1>4 DEF CleanupRecovery, cleanup_retention, StoreTypeOK, RunRow
  <2>3. NoNewWait
    <3>1. \A j \in Jobs : jobs'[j] = jobs[j] \/ jobs'[j] = [jobs[j] EXCEPT !.state = "absent"]
      BY <1>4 DEF CleanupRecovery, cleanup_retention
    <3> QED
      BY <3>1 DEF StoreTypeOK, JobRow, NoNewWait, Pending
  <2>4. \A j \in Jobs : Waker(j) => Waker(j)'
    BY <2>1, <2>2, WakersKept
  <2>5. \A j \in Jobs : jobs'[j].state \in Pending => Waker(j)' \/ heap'[j] # NoDue
    BY <2>1, <2>3, <2>4 DEF Watched, Planned, NoNewWait
  <2> QED
    BY <2>1, <2>5 DEF Watched, Planned, InHand
<1> QED
  BY <1>1, <1>2, <1>3, <1>4

(* A due execution never loses a job that waits: it goes from the heap to  *)
(* the batch, to the execution, and when that fails back to the heap.      *)
LEMMA ExecKeepsHand ==
  ASSUME TypeInv, Watched, NEW j \in Jobs, InHand(j), jobs'[j].state \in Pending,
         \/ UNCHANGED jobs /\ (PopDue \/ EndBatch \/ \E i \in Jobs : ExecLoad(i))
         \/ ExecWait \/ ExecStart \/ ExecClaim \/ ExecMark \/ ExecRefused
         \/ ExecFailRun \/ ExecFailJob \/ ExecSpawnError \/ ExecStorageError
         \/ exec.pc = "spawn" /\ Done /\ ExecFrame
  PROVE  InHand(j)'
<1> USE DEF TypeInv, TypeOK
<1>e. exec \in ExecState /\ heap \in [Jobs -> Nat \cup {NoDue}]
  BY DEF SupervisorTypeOK, ExecState
<1>n. ASSUME NEW n \in Nat PROVE n # NoDue
  BY DEF NoDue
<1>1. CASE PopDue
  <2>1. /\ heap' = [i \in Jobs |-> IF i \in DueJobs THEN NoDue ELSE heap[i]]
        /\ exec' = [exec EXCEPT !.pc = "batch", !.batch = DueJobs]
        /\ exec.pc = "idle" /\ exec.batch = {}
    BY <1>1 DEF PopDue, Watched
  <2>2. exec'.pc = "batch" /\ exec'.batch = DueJobs /\ exec'.failed = exec.failed
    BY <1>e, <2>1 DEF ExecState
  <2> QED
    BY <2>1, <2>2 DEF InHand
<1>2. CASE EndBatch
  <2>1. /\ heap' = [i \in Jobs |-> IF i \in exec.failed THEN now + Backoff ELSE heap[i]]
        /\ exec' = Idle /\ exec.pc = "batch" /\ exec.batch = {} /\ now + Backoff \in Nat
    BY <1>2, BackoffAssumption DEF EndBatch, StoreTypeOK
  <2>2. heap'[j] # NoDue
    BY <1>n, <2>1 DEF InHand
  <2> QED
    BY <2>1, <2>2 DEF InHand, Idle
<1>3. CASE UNCHANGED jobs /\ \E i \in Jobs : ExecLoad(i)
  <2>0. PICK i \in Jobs : ExecLoad(i)
    BY <1>3
  <2>1. PICK rest \in ExecState : /\ rest = [exec EXCEPT !.batch = @ \ {i}] /\ rest.pc = "batch"
                                  /\ rest.batch = exec.batch \ {i} /\ rest.failed = exec.failed
    <3>1. ASSUME NEW e \in ExecState, e.pc = "batch"
          PROVE  LET rest == [e EXCEPT !.batch = @ \ {i}]
                 IN  /\ rest \in ExecState /\ rest.pc = "batch"
                     /\ rest.batch = e.batch \ {i} /\ rest.failed = e.failed
      BY <3>1 DEF ExecState
    <3>2. exec.pc = "batch"
      BY <2>0 DEF ExecLoad
    <3> QED
      BY <1>e, <3>1, <3>2
  <2>2. UNCHANGED heap /\ exec.pc = "batch"
    BY <2>0 DEF ExecLoad, ExecFrame
  <2>3. ASSUME NEW pc \in {"wait", "start"}, NEW n, NEW d,
               exec' = [rest EXCEPT !.pc = pc, !.job = i, !.rev = n, !.due = d]
        PROVE  exec'.pc = pc /\ exec'.job = i /\ exec'.batch = rest.batch /\ exec'.failed = rest.failed
    BY <2>3 DEF ExecState
  <2>4. \/ exec' = rest /\ jobs[i].state \notin Pending
        \/ \E pc \in {"wait", "start"} :
             exec' = [rest EXCEPT !.pc = pc, !.job = i, !.rev = jobs[i].rev, !.due = jobs[i].due]
    BY <2>0, <2>1 DEF ExecLoad, Pending
  <2>5. \/ exec' = rest /\ jobs[i].state \notin Pending
        \/ /\ exec'.pc \in {"wait", "start"} /\ exec'.job = i
           /\ exec'.batch = rest.batch /\ exec'.failed = rest.failed
    BY <2>3, <2>4
  <2>6. jobs[i].state \notin Pending => j # i
    BY <1>3
  <2>7. CASE j = i
    BY <2>5, <2>6, <2>7 DEF InHand
  <2>8. CASE j # i
    <3>1. exec'.batch = exec.batch \ {i} /\ exec'.failed = exec.failed
      BY <2>1, <2>5
    <3> QED
      BY <2>2, <2>8, <3>1 DEF InHand
  <2> QED
    BY <2>7, <2>8
<1>4. CASE ExecWait \/ ExecStart \/ ExecMark
  <2>1. PICK pc, to, next : /\ ExecMove(pc, to, next)
                            /\ <<pc, to, next>> \in {<<"wait", "waiting", "start">>,
                                 <<"start", "starting", "claim">>, <<"mark", "running", "spawn">>}
    BY <1>4 DEF ExecWait, ExecStart, ExecMark
  <2>2. exec.pc = pc /\ UNCHANGED heap /\ exec' = [exec EXCEPT !.pc = next, !.rev = exec.rev + 1]
    BY <2>1 DEF ExecMove, ExecFrame
  <2>3. /\ exec'.pc = next /\ exec'.job = exec.job
        /\ exec'.batch = exec.batch /\ exec'.failed = exec.failed
    BY <1>e, <2>2 DEF ExecState
  <2>4. exec.pc = "start" => j # exec.job
    <3>1. exec.pc = "start" => exec.job \in Jobs /\ transition_job(exec.job, exec.rev, "starting")
      BY <2>1, <2>2 DEF ExecMove, Linked, ExecLinked
    <3> QED
      BY <3>1 DEF transition_job, StoreTypeOK, JobRow, Pending
  <2>5. CASE exec.pc = "wait"
    <3>1. exec'.pc = "start"
      BY <2>1, <2>2, <2>3, <2>5
    <3> QED
      BY <2>2, <2>3, <2>5, <3>1 DEF InHand
  <2>6. CASE exec.pc # "wait"
    BY <2>2, <2>3, <2>4, <2>6 DEF InHand
  <2> QED
    BY <2>5, <2>6
<1>5. CASE ExecClaim \/ ExecFailRun \/ ExecSpawnError
  <2>1. /\ UNCHANGED heap /\ exec.pc \in {"claim", "fail_run", "spawn"}
        /\ exec'.pc \in {"mark", "fail_job", "fail_run"}
        /\ exec'.batch = exec.batch /\ exec'.failed = exec.failed
    BY <1>5, <1>e DEF ExecClaim, ExecFailRun, ExecSpawnError, ExecFrame, ExecState
  <2> QED
    BY <2>1 DEF InHand
<1>6. CASE Failed /\ ExecFrame
  <2>1. /\ UNCHANGED heap /\ exec'.pc = "batch" /\ exec'.batch = exec.batch
        /\ exec'.failed = exec.failed \cup {exec.job}
    BY <1>6 DEF Failed, Idle, ExecFrame
  <2> QED
    BY <2>1 DEF InHand
<1>7. CASE Done /\ ExecFrame /\ exec.pc \in {"spawn", "fail_job"}
  <2>1. /\ UNCHANGED heap /\ exec'.pc = "batch" /\ exec'.batch = exec.batch
        /\ exec'.failed = exec.failed
    BY <1>7 DEF Done, Idle, ExecFrame
  <2> QED
    BY <1>7, <2>1 DEF InHand
<1>8. CASE ExecStorageError
  <2>1. ASSUME NEW i \in exec.batch, exec.pc = "batch", ExecFrame,
               exec' = [exec EXCEPT !.batch = @ \ {i}, !.failed = @ \cup {i}]
        PROVE  InHand(j)'
    <3>1. /\ UNCHANGED heap /\ exec'.pc = "batch" /\ exec'.batch = exec.batch \ {i}
          /\ exec'.failed = exec.failed \cup {i}
      BY <1>e, <2>1 DEF ExecState, ExecFrame
    <3> QED
      BY <2>1, <3>1 DEF InHand
  <2> QED
    BY <1>6, <1>8, <2>1 DEF ExecStorageError
<1> QED
  BY <1>1, <1>2, <1>3, <1>4, <1>5, <1>6, <1>7, <1>8 DEF ExecRefused, ExecFailJob

LEMMA WatchExec ==
  ASSUME TypeInv, Results, Watched, UNCHANGED <<wakes, dropped>>,
         \/ UNCHANGED <<storeVars, mon>> /\ (PopDue \/ EndBatch \/ \E j \in Jobs : ExecLoad(j))
         \/ /\ UNCHANGED mon
            /\ \/ ExecWait \/ ExecStart \/ ExecClaim \/ ExecMark \/ ExecRefused
               \/ ExecFailRun \/ ExecFailJob \/ ExecSpawnError \/ ExecStorageError
         \/ ExecSpawn
  PROVE  Watched'
<1> USE DEF TypeInv, TypeOK
<1>1. UNCHANGED <<sup, plan>>
  BY DEF PopDue, EndBatch, ExecLoad, ExecWait, ExecStart, ExecClaim, ExecMark, ExecMove,
         ExecRefused, ExecFailRun, ExecFailJob, ExecSpawnError, ExecStorageError, ExecSpawn,
         ExecFrame
<1>2. \A j \in Jobs : jobs'[j].state \in Pending /\ InHand(j) => InHand(j)'
  BY ExecKeepsHand DEF ExecSpawn, storeVars
<1>3. NoNewWait
  <2>1. CASE ExecWait \/ ExecStart \/ ExecMark \/ ExecFailJob
    <3>1. exec.job \in Jobs /\ \E to : transition_job(exec.job, exec.rev, to)
      BY <2>1 DEF ExecWait, ExecStart, ExecMark, ExecMove, ExecFailJob, Linked, ExecLinked
    <3> QED
      BY <3>1, TransitionStartsNoWait
  <2>2. CASE ~(ExecWait \/ ExecStart \/ ExecMark \/ ExecFailJob)
    <3>1. UNCHANGED jobs
      BY <2>2 DEF ExecClaim, claim_run, ExecRefused, ExecFailRun, record_run_terminal,
           ExecSpawnError, ExecStorageError, ExecSpawn, storeVars
    <3> QED
      BY <3>1 DEF NoNewWait
  <2> QED
    BY <2>1, <2>2
<1>4. \A j \in Jobs : Waker(j) => Waker(j)'
  <2>1. CASE ExecSpawn
    <3>1. /\ exec.run \in Runs /\ mon[exec.run].pc = "none" /\ UNCHANGED runs
          /\ mon' = [mon EXCEPT ![exec.run].pc = "boot"]
      BY <2>1 DEF ExecSpawn, Goes, Results, Unspawned, Linked, ExecLinked, storeVars
    <3>2. \A q \in Runs : mon[q].pc = "wake" => mon'[q] = mon[q]
      BY <3>1 DEF MonitorTypeOK
    <3> QED
      BY <3>1, <3>2 DEF Waker, RunsOf
  <2>2. CASE ExecClaim /\ UNCHANGED mon
    <3>1. \A r \in Runs : runs'[r] = runs[r] \/ runs[r].job = NoJob
      BY <2>2 DEF ExecClaim, claim_run, NextRun, StoreTypeOK
    <3>2. \A r \in Runs : runs'[r].job = runs[r].job \/ mon[r].pc # "wake"
      BY <3>1, JobsAssumption DEF Linked, MonLinked
    <3> QED
      BY <2>2, <3>2, WakersKept
  <2>3. CASE ExecFailRun /\ UNCHANGED mon
    <3>1. \A r \in Runs : runs'[r].job = runs[r].job
      BY <2>3 DEF ExecFailRun, record_run_terminal, StoreTypeOK, RunRow
    <3> QED
      BY <2>3, <3>1, WakersKept
  <2>4. CASE ~(ExecSpawn \/ ExecClaim \/ ExecFailRun)
    <3>1. UNCHANGED <<runs, mon>>
      BY <2>4 DEF ExecWait, ExecStart, ExecMark, ExecMove, ExecRefused, ExecFailJob,
           ExecSpawnError, ExecStorageError, transition_job, storeVars
    <3> QED
      BY <3>1, WakersKept
  <2> QED
    BY <2>1, <2>2, <2>3, <2>4 DEF ExecWait, ExecMove, transition_job, storeVars, ExecClaim
<1>5. exec'.pc = "idle" => exec'.batch = {}
  <2>1. ASSUME exec'.pc = "idle" PROVE exec' = Idle
    <3>1. exec \in ExecState
      BY DEF SupervisorTypeOK, ExecState
    <3>2. CASE EndBatch
      BY <3>2 DEF EndBatch
    <3>3. CASE \E j \in Jobs : ExecLoad(j)
      BY <2>1, <3>1, <3>3 DEF ExecLoad, ExecState
    <3>4. CASE PopDue \/ ExecWait \/ ExecStart \/ ExecMark \/ ExecClaim
      BY <2>1, <3>1, <3>4 DEF PopDue, ExecWait, ExecStart, ExecMark, ExecMove, ExecClaim, ExecState
    <3>5. CASE ExecSpawnError \/ ExecFailRun
      BY <2>1, <3>1, <3>5 DEF ExecSpawnError, ExecFailRun, ExecState
    <3>6. CASE Done \/ Failed
      BY <2>1, <3>6 DEF Done, Failed, Idle
    <3>7. CASE exec.pc = "batch" /\ \E j \in exec.batch :
                 exec' = [exec EXCEPT !.batch = @ \ {j}, !.failed = @ \cup {j}]
      BY <2>1, <3>1, <3>7 DEF ExecState
    <3> QED
      BY <3>2, <3>3, <3>4, <3>5, <3>6, <3>7
         DEF ExecSpawn, ExecFailJob, ExecRefused, ExecStorageError
  <2> QED
    BY <2>1 DEF Idle
<1> QED
  BY <1>1, <1>2, <1>3, <1>4, <1>5, WatchKept DEF NoNewWait, WaitsWithWaker

LEMMA WatchSupervisor ==
  ASSUME TypeInv, Results, Watched, Supervise \/ SupervisorFault \/ SupervisorStop
  PROVE  Watched'
<1>1. UNCHANGED wakes
  BY DEF Supervise, SupervisorFault, SupervisorStop, SupervisorStep, RecoveryPlanned, ExecSpawn,
         cliVars
<1>2. CASE ExecSpawn
  BY <1>1, <1>2, WatchExec DEF ExecSpawn
<1>3. CASE RecoveryPlanned
  BY <1>1, <1>3, WatchRecovery DEF RecoveryPlanned, monVars
<1>4. CASE ~(ExecSpawn \/ RecoveryPlanned)
  <2>1. UNCHANGED <<mon, dropped>>
    BY <1>4 DEF Supervise, SupervisorFault, SupervisorStop, SupervisorStep, monVars
  <2>2. \/ UNCHANGED storeVars /\ (PopDue \/ EndBatch \/ \E j \in Jobs : ExecLoad(j))
        \/ ExecWait \/ ExecStart \/ ExecClaim \/ ExecMark \/ ExecRefused
        \/ ExecFailRun \/ ExecFailJob \/ ExecSpawnError \/ ExecStorageError
        \/ ApplyRecovery \/ CleanupRecovery
        \/ UNCHANGED storeVars /\ (LoadActiveRuns \/ Stopped)
    BY <1>4 DEF Supervise, SupervisorFault, SupervisorStop, SupervisorStep, RefuseRecovery,
                RecoveryConflict
  <2> QED
    BY <1>1, <2>1, <2>2, WatchExec, WatchRecovery
<1> QED
  BY <1>2, <1>3, <1>4

LEMMA WatchStep ==
  ASSUME TypeInv, Results, AskedFirst, Watched, [Next]_vars
  PROVE  Watched'
<1>1. CASE Tick \/ UNCHANGED vars
  <2>1. UNCHANGED <<jobs, runs, mon, wakes, dropped, supVars>>
    BY <1>1 DEF Tick, vars, storeVars, monVars, cliVars
  <2> QED
    BY <2>1, WatchOutside DEF WaitsWithWaker
<1> QED
  BY <1>1, WatchUser, WatchWake, WatchCancel, WatchSupervisor, WatchMonitor, WatchMonWake
     DEF Next

(* Every job that waits has somebody who will look at it: across           *)
(* recoveries, batches, failed executions, reruns and recurrences no       *)
(* interleaving loses a waiting job while the supervisor is up.            *)
THEOREM WaitingIsOwnedHolds == Spec => []WaitingIsOwned
<1>1. Init => AskedFirst /\ Watched
  BY DEF Init, StoreInit, SupervisorInit, Idle, AskedFirst, Begun, Watched, Pending
<1>2. TypeInv /\ Stored /\ Loaded /\ Results /\ AskedFirst /\ Watched /\ [Next]_vars
        => AskedFirst' /\ Watched'
  BY AskedStep, WatchStep
<1>3. Watched => WaitingIsOwned
  BY DEF Watched, Waker, Planned, InHand, WaitingIsOwned
<1> QED
  BY <1>1, <1>2, <1>3, TypeInvariant, LoadedInvariant, ResultsInvariant, PTL DEF Spec

-------------------------------------------------------------------------------
(* The rows agree.  A run is busy while it is active or while its monitor  *)
(* may still move the job for it; a job that waits has no busy run, one    *)
(* that is underway at most one.  (With cancellers it is not so: v_rows.)  *)
Busy(r) ==
  \/ runs[r].state \in RunActive
  \/ mon[r].pc = "load_job"
  \/ mon[r].pc = "finish" /\ mon[r].rev = jobs[runs[r].job].rev

Calm(j) == \A r \in RunsOf(j) : ~Busy(r)

JobAgrees(j) ==
  /\ jobs[j].state \in Pending => Calm(j)
  /\ jobs[j].state \notin Underway => ActiveRuns(j) = {}
  /\ \A r, q \in RunsOf(j) : jobs[j].state \in Underway /\ Busy(r) /\ Busy(q) => r = q

(* What the execution knows of the job it has started.                     *)
ExecAgrees ==
  /\ sup # "up" => exec.pc = "idle"
  /\ exec.pc = "claim" => jobs[exec.job].state = "starting" /\ Calm(exec.job)
  /\ exec.pc \in {"mark", "spawn", "fail_run"} => runs[exec.run].job = exec.job
  /\ exec.pc = "fail_job" => Calm(exec.job)

(* What recovery read is all there is: nobody claims a run meanwhile.      *)
RecoveryAgrees ==
  /\ sup = "jobs" => \A r \in Runs : runs[r].state \in RunActive => r \in FoundRuns(runs[r].job)
  /\ \A j \in Jobs : \A r, q \in FoundRuns(j) : r = q
  /\ sup = "apply" =>
       \A j \in Jobs : plan[j].act = "interrupt" => ActiveRuns(j) \subseteq {plan[j].run}

Recorded == \A r \in Runs : mon[r].pc \in {"load_job", "finish"} => runs[r].state \notin RunActive

Agree == Recorded /\ ExecAgrees /\ RecoveryAgrees /\ \A j \in Jobs : JobAgrees(j)

(* Nobody runs a job again while a monitor that has recorded the end of a  *)
(* run of it is yet to look at the job.                                    *)
SettledStep ==
  \A j \in Jobs : jobs[j].state \in JobTerminal /\ jobs'[j].state = "waiting" =>
    \A r \in RunsOf(j) : mon[r].pc # "load_job"

(* Only the record of an active run brings its monitor to the job.         *)
LEMMA LoadsWhatItRecorded ==
  ASSUME TypeInv, [Next]_vars, NEW r \in Runs, mon'[r].pc = "load_job"
  PROVE  mon'[r] = mon[r] \/ MonRecord(r)
<1> USE DEF TypeInv, TypeOK, MonitorTypeOK
<1>1. ASSUME NEW q \in Runs, MonitorStep(q) \/ CommandStep(q) \/ MonWake(q) \/ MonitorFault(q)
      PROVE  mon'[r] = mon[r] \/ MonRecord(r)
  <2>1. CASE q # r
    BY <1>1, <2>1, OwnRunOnly
  <2>2. CASE q = r /\ MonLoadJob(r)
    <3>1. mon'[r].pc \in {"dead", "wake", "finish"}
      BY <2>2 DEF MonLoadJob, Exits, Exited, NoMonitor, AfterFinish, MonState
    <3> QED
      BY <3>1
  <2>3. CASE q = r /\ ~MonRecord(r) /\ ~MonLoadJob(r)
    <3>1. \/ mon' = mon \/ Exits(r)
          \/ (\E pc \in {"spawn", "mark", "wait"} : Goes(r, pc))
          \/ (\E out : mon' = [mon EXCEPT ![r].pc = "record", ![r].out = out])
          \/ mon' = [mon EXCEPT ![r] = [NoMonitor EXCEPT !.pc = AfterFinish(r)]]
      BY <1>1, <2>3 DEF MonitorStep, CommandStep, CommandExit, MonWake, MonitorFault,
           MonSetupError, MonOutputError, MonCrash, MonLoad, MonSpawn, MonMark, MonMarkRefused,
           MonReap, MonReapLost, MonRecordRefused, MonFinish, MonFinishRefused
    <3> QED
      BY <3>1 DEF Exits, Exited, Goes, NoMonitor, AfterFinish, MonState
  <2> QED
    BY <2>1, <2>2, <2>3
<1>2. CASE ExecSpawn
  BY <1>2 DEF ExecSpawn, Goes, MonState
<1>3. CASE ~ExecSpawn /\ (Supervise \/ SupervisorFault \/ SupervisorStop)
  BY <1>3 DEF Supervise, SupervisorStep, RecoveryPlanned, SupervisorFault, SupervisorStop, monVars
<1>4. CASE Tick \/ UNCHANGED vars
  BY <1>4 DEF Tick, vars, monVars
<1>5. ASSUME NEW j \in Jobs, UserStep(j) \/ ServeWake(j) \/ GiveUpWake(j) PROVE mon'[r] = mon[r]
  BY <1>5 DEF UserStep, ServeWake, GiveUpWake, monVars
<1>6. ASSUME NEW c \in Cancellers, CancelStep(c) \/ CancelFault(c) PROVE mon'[r] = mon[r]
  BY <1>6 DEF CancelStep, CancelFault, CancelStoreStep, CancelSignal, CancelKill, monVars
<1> QED
  BY <1>1, <1>2, <1>3, <1>4, <1>5, <1>6 DEF Next

LEMMA RecordsActive ==
  ASSUME TypeInv, NEW r \in Runs, NEW outcome, record_run_terminal(r, outcome)
  PROVE  /\ runs[r].state \in RunActive /\ runs'[r].state \notin RunActive
         /\ \A q \in Runs : runs'[q].job = runs[q].job /\ (q # r => runs'[q] = runs[q])
         /\ UNCHANGED jobs
<1>1. /\ complete_run(runs[r].state, outcome) # "illegal"
      /\ \A q \in Runs : runs'[q].job = runs[q].job /\ (q # r => runs'[q] = runs[q])
      /\ runs'[r].state = complete_run(runs[r].state, outcome)
      /\ UNCHANGED jobs
  BY DEF record_run_terminal, CanRecord, TypeInv, TypeOK, StoreTypeOK, RunRow
<1>2. runs[r].state \in RunActive
  BY <1>1 DEF complete_run, run_transition, RunLegal, RunActive
<1>3. complete_run(runs[r].state, outcome) = outcome_state(outcome)
  BY <1>1 DEF complete_run
<1>4. outcome_state(outcome) \in {"succeeded", "failed", "interrupted", "cancelled"}
  BY DEF outcome_state
<1> QED
  BY <1>1, <1>2, <1>3, <1>4 DEF RunActive

(* A claimed run that is not busy never is again.                          *)
LEMMA IdleStays ==
  ASSUME TypeInv, Loaded, [Next]_vars, NEW r \in Runs, runs[r].job \in Jobs, ~Busy(r)
  PROVE  ~Busy(r)' /\ runs'[r].job = runs[r].job
<1>0. runs'[r].job = runs[r].job
  BY ClaimedStays, JobsAssumption DEF NewlyClaimed
<1>1. runs'[r].state \notin RunActive
  <2>1. RunMoves(r)
    BY RunsMove
  <2>2. runs[r].state \notin RunActive /\ runs[r].job # NoJob
    BY JobsAssumption DEF Busy
  <2> QED
    BY <2>1, <2>2 DEF RunMoves, RunActive, run_transition, RunLegal
<1>2. mon'[r].pc # "load_job"
  <2>1. ~MonRecord(r)
    BY RecordsActive DEF MonRecord, Busy
  <2> QED
    BY <2>1, LoadsWhatItRecorded DEF Busy
<1>3. ASSUME mon'[r].pc = "finish" PROVE mon'[r].rev # jobs'[runs'[r].job].rev
  <2>1. mon'[r] = mon[r]
    BY <1>3, FinishesWhatItLoaded DEF MonLoadJob, Busy
  <2>2. PICK j \in Jobs : j = runs[r].job
    OBVIOUS
  <2>3. /\ mon[r].rev <= jobs[j].rev /\ mon[r].rev # jobs[j].rev /\ permits[j] > 0
    BY <1>3, <2>1, <2>2 DEF Loaded, LoadedJob, Busy
  <2>4. mon[r].rev \in Nat /\ jobs[j].rev \in Nat
    BY DEF TypeInv, TypeOK, MonitorTypeOK, MonState, StoreTypeOK, JobRow
  <2>5. JobMoves(j)
    BY JobsMove
  <2>6. jobs'[j].rev >= jobs[j].rev
    BY <2>3, <2>4, <2>5 DEF JobMoves, Stays, Deleted, Moves, RunsAgain, Created
  <2>7. jobs'[j].rev \in Nat
    BY StepTypes DEF TypeInv, TypeOK, StoreTypeOK, JobRow
  <2>8. mon[r].rev # jobs'[j].rev
    BY <2>3, <2>4, <2>6, <2>7
  <2> QED
    BY <1>0, <2>1, <2>2, <2>8
<1> QED
  BY <1>0, <1>1, <1>2, <1>3 DEF Busy

(* A claim is the only way to a new busy run.                              *)
LEMMA CalmStays ==
  ASSUME TypeInv, Loaded, [Next]_vars, NEW j \in Jobs, Calm(j),
         ~(exec.pc = "claim" /\ exec.job = j /\ exec'.pc = "mark")
  PROVE  Calm(j)'
<1> SUFFICES ASSUME NEW r \in Runs, runs'[r].job = j PROVE ~Busy(r)'
  BY DEF Calm, RunsOf
<1>1. CASE runs[r].job = j
  BY <1>1, IdleStays DEF Calm, RunsOf
<1>2. ~NewlyClaimed(r)
  BY DEF NewlyClaimed
<1> QED
  BY <1>1, <1>2, ClaimedStays

(* Who moves a job to another state when nobody cancels.                   *)
Mover(j) ==
  \/ Submit(j) \/ Rerun(j)
  \/ \E r \in RunsOf(j) : MonFinish(r)
  \/ exec.job = j /\ (ExecWait \/ ExecStart \/ ExecMark \/ ExecFailJob)
  \/ ApplyRecovery
  \/ CleanupRecovery /\ jobs[j].state \in JobTerminal /\ jobs'[j].state = "absent"

LEMMA TransitionOfOne ==
  ASSUME TypeInv, NEW i \in Jobs, NEW rev, NEW to, transition_job(i, rev, to)
  PROVE  /\ jobs'[i].state = to /\ to \in OneShotLegal[jobs[i].state]
         /\ jobs[i].state \in Pending \cup Underway
         /\ \A j \in Jobs \ {i} : jobs'[j] = jobs[j]
<1>1. /\ jobs'[i].state = to
      /\ \A j \in Jobs \ {i} : jobs'[j] = jobs[j]
  BY DEF transition_job, TypeInv, TypeOK, StoreTypeOK, JobRow
<1>2. /\ to \in OneShotLegal[jobs[i].state]
      /\ jobs[i].state \in DOMAIN OneShotLegal
  BY DEF transition_job, CanTransition, job_transition
<1>3. jobs[i].state \in Pending \cup Underway
  BY <1>2 DEF OneShotLegal, Pending, Underway
<1> QED
  BY <1>1, <1>2, <1>3

LEMMA WhoMoves ==
  ASSUME Cancellers = {}, TypeInv, [Next]_vars, NEW j \in Jobs, jobs'[j].state # jobs[j].state
  PROVE  Mover(j)
<1> USE DEF TypeInv, TypeOK, StoreTypeOK
<1>1. ASSUME NEW i \in Jobs, UserStep(i) PROVE Mover(j)
  <2>1. CASE Submit(i)
    <3>1. i = j
      BY <2>1 DEF Submit, create
    <3> QED
      BY <2>1, <3>1 DEF Mover
  <2>2. CASE Rerun(i)
    <3>1. i = j
      BY <2>2 DEF Rerun, prepare_rerun
    <3> QED
      BY <2>2, <3>1 DEF Mover
  <2>3. CASE Remove(i)
    BY <2>3 DEF Remove, hide_job, JobRow
  <2> QED
    BY <1>1, <2>1, <2>2, <2>3 DEF UserStep
<1>2. ASSUME NEW r \in Runs, MonitorStep(r) \/ CommandStep(r) \/ MonWake(r) \/ MonitorFault(r)
      PROVE  Mover(j)
  <2>1. MonFinish(r)
    BY <1>2 DEF MonitorStep, MonLoad, MonSpawn, MonMark, MonMarkRefused, MonReap, MonReapLost,
         MonRecord, MonRecordRefused, MonLoadJob, MonFinishRefused, CommandStep,
         CommandExit, MonWake, MonitorFault, MonSetupError, MonOutputError, MonCrash,
         storeVars, mark_run_running, record_run_terminal
  <2>2. runs[r].job \in Jobs
    BY <2>1 DEF MonFinish, Linked, MonLinked
  <2>3. runs[r].job = j
    <3>1. CASE FinishAdvances(r)
      BY <2>1, <2>2, <3>1 DEF MonFinish, advance_recurring_job
    <3>2. CASE ~FinishAdvances(r)
      BY <2>1, <2>2, <3>2, TransitionOfOne DEF MonFinish
    <3> QED
      BY <3>1, <3>2
  <2> QED
    BY <2>1, <2>3 DEF Mover, RunsOf
<1>3. CASE Supervise \/ SupervisorFault \/ SupervisorStop
  <2>1. CASE ExecWait \/ ExecStart \/ ExecMark \/ ExecFailJob
    <3>1. PICK to : exec.job \in Jobs /\ transition_job(exec.job, exec.rev, to)
      BY <2>1 DEF ExecWait, ExecStart, ExecMark, ExecMove, ExecFailJob, Linked, ExecLinked
    <3>2. exec.job = j
      BY <3>1, TransitionOfOne
    <3> QED
      BY <2>1, <3>2 DEF Mover
  <2>2. CASE CleanupRecovery
    <3>1. PICK oldRuns \in SUBSET OldRuns, oldJobs \in SUBSET OldJobs :
            cleanup_retention(oldRuns, oldJobs)
      BY <2>2 DEF CleanupRecovery
    <3>2. j \in oldJobs /\ jobs'[j].state = "absent" /\ jobs[j].state \in JobTerminal
      BY <3>1 DEF cleanup_retention, JobRow
    <3> QED
      BY <2>2, <3>2 DEF Mover
  <2>3. CASE ApplyRecovery
    BY <2>3 DEF Mover
  <2>4. CASE ~(ExecWait \/ ExecStart \/ ExecMark \/ ExecFailJob \/ ApplyRecovery \/ CleanupRecovery)
    BY <1>3, <2>4 DEF Supervise, SupervisorFault, SupervisorStop, SupervisorStep, RecoveryPlanned,
         ExecSpawn, RecoveryConflict, ExecClaim, claim_run, ExecRefused, ExecFailRun,
         record_run_terminal, ExecSpawnError, ExecStorageError, storeVars
  <2> QED
    BY <2>1, <2>2, <2>3, <2>4
<1>4. CASE Tick \/ UNCHANGED vars
  BY <1>4 DEF Tick, vars, storeVars
<1>5. ASSUME NEW i \in Jobs, ServeWake(i) \/ GiveUpWake(i) PROVE FALSE
  BY <1>5 DEF ServeWake, GiveUpWake, WakeEnds, storeVars
<1> QED
  BY <1>1, <1>2, <1>3, <1>4, <1>5 DEF Next

(* How an execution gets to claim a run, to hold one, and to fail the job. *)
LEMMA ExecutionGoesOn ==
  ASSUME TypeInv, [Next]_vars
  PROVE  /\ exec'.pc = "claim" => UNCHANGED exec \/ ExecStart
         /\ exec'.pc = "fail_job" => UNCHANGED exec \/ ExecFailRun
         /\ exec'.pc \in {"mark", "spawn", "fail_run"} =>
              \/ /\ exec.pc \in {"mark", "spawn", "fail_run"}
                 /\ exec'.run = exec.run /\ exec'.job = exec.job
              \/ ExecClaim
<1> USE DEF TypeInv, TypeOK, SupervisorTypeOK
<1> DEFINE G == /\ exec'.pc = "claim" => UNCHANGED exec \/ ExecStart
                /\ exec'.pc = "fail_job" => UNCHANGED exec \/ ExecFailRun
                /\ exec'.pc \in {"mark", "spawn", "fail_run"} =>
                     \/ /\ exec.pc \in {"mark", "spawn", "fail_run"}
                        /\ exec'.run = exec.run /\ exec'.job = exec.job
                     \/ ExecClaim
<1>1. CASE UNCHANGED exec
  BY <1>1
<1>2. ASSUME exec'.pc \in {"idle", "batch", "wait", "start"} PROVE G
  BY <1>2
<1>3. CASE \E j \in Jobs : ExecLoad(j)
  BY <1>2, <1>3 DEF ExecLoad
<1>4. CASE ExecWait
  BY <1>2, <1>4 DEF ExecWait, ExecMove
<1>5. CASE ExecStart
  BY <1>5 DEF ExecStart, ExecMove
<1>6. CASE ExecMark \/ ExecSpawnError
  BY <1>6 DEF ExecMark, ExecMove, ExecSpawnError
<1>7. CASE ExecClaim
  BY <1>7 DEF ExecClaim
<1>8. CASE ExecFailRun
  BY <1>8 DEF ExecFailRun
<1>9. CASE Stopped \/ EndBatch
  BY <1>2, <1>9 DEF Stopped, EndBatch, Idle
<1>10. CASE Done \/ Failed
  BY <1>2, <1>10 DEF Done, Failed, Idle
<1>11. CASE PopDue
  BY <1>2, <1>11 DEF PopDue
<1>12. CASE ExecStorageError
  <2>1. CASE exec.pc = "batch" /\ ~Failed
    <3>1. exec'.pc = exec.pc
      BY <1>12, <2>1 DEF ExecStorageError
    <3> QED
      BY <1>2, <2>1, <3>1
  <2> QED
    BY <1>10, <1>12, <2>1 DEF ExecStorageError
<1> QED
  BY <1>1, <1>3, <1>4, <1>5, <1>6, <1>7, <1>8, <1>9, <1>10, <1>11, <1>12, ExecutionSteps

LEMMA ActiveBefore ==
  ASSUME TypeInv, [Next]_vars, NEW r \in Runs, runs'[r].state \in RunActive, ~NewlyClaimed(r)
  PROVE  runs[r].state \in RunActive /\ runs'[r].job = runs[r].job /\ runs[r].job \in Jobs
<1>1. runs'[r].job = runs[r].job
  BY ClaimedStays
<1>2. runs'[r].job # NoJob
  <2>1. TypeInv'
    BY StepTypes
  <2> QED
    BY <2>1 DEF TypeInv, Linked, RunLinked, RunActive
<1>3. RunMoves(r)
  BY RunsMove
<1>4. runs[r].job \in Jobs
  BY <1>1, <1>2 DEF TypeInv, TypeOK, StoreTypeOK, RunRow
<1> QED
  BY <1>1, <1>2, <1>3, <1>4 DEF RunMoves, run_transition, RunLegal, RunActive

LEMMA NoneActiveStays ==
  ASSUME TypeInv, [Next]_vars, NEW j \in Jobs, ActiveRuns(j) = {},
         ~(exec.pc = "claim" /\ exec.job = j)
  PROVE  ActiveRuns(j)' = {}
<1> SUFFICES ASSUME NEW r \in Runs, runs'[r].job = j, runs'[r].state \in RunActive PROVE FALSE
  BY DEF ActiveRuns, RunsOf
<1>1. ~NewlyClaimed(r)
  BY DEF NewlyClaimed
<1>2. runs[r].state \in RunActive /\ runs[r].job = j
  BY <1>1, ActiveBefore
<1> QED
  BY <1>2 DEF ActiveRuns, RunsOf

(* The claim of an execution is the first busy run of its job; otherwise   *)
(* the busy run of a job stays the only one.                               *)
LEMMA OneBusyStays ==
  ASSUME TypeInv, Loaded, ExecAgrees, [Next]_vars, NEW j \in Jobs,
         \A r, q \in RunsOf(j) : Busy(r) /\ Busy(q) => r = q,
         NEW r \in Runs, NEW q \in Runs, runs'[r].job = j, runs'[q].job = j, Busy(r)', Busy(q)'
  PROVE  r = q
<1>1. ASSUME NEW s \in Runs, runs'[s].job = j, Busy(s)', ~NewlyClaimed(s)
      PROVE  s \in RunsOf(j) /\ Busy(s)
  <2>1. runs[s].job = j
    BY <1>1, ClaimedStays
  <2> QED
    BY <1>1, <2>1, IdleStays DEF RunsOf
<1>2. ASSUME NEW s \in Runs, NewlyClaimed(s), runs'[s].job = j
      PROVE  s = exec'.run /\ Calm(j)
  BY <1>2 DEF NewlyClaimed, ExecAgrees
<1>3. CASE NewlyClaimed(r) \/ NewlyClaimed(q)
  <2>1. Calm(j)
    BY <1>2, <1>3
  <2>2. NewlyClaimed(r) /\ NewlyClaimed(q)
    BY <1>1, <2>1 DEF Calm
  <2> QED
    BY <1>2, <2>2
<1>4. CASE ~NewlyClaimed(r) /\ ~NewlyClaimed(q)
  BY <1>1, <1>4
<1> QED
  BY <1>3, <1>4

LEMMA SupervisorMovesOn ==
  ASSUME TypeInv, [Next]_vars
  PROVE  \/ UNCHANGED <<sup, found, plan>>
         \/ LoadActiveRuns
         \/ PlanRecovery(LiveMonitors) /\ UNCHANGED <<runs, mon>>
         \/ Stopped
         \/ ApplyRecovery
         \/ CleanupRecovery
BY DEF Next, vars, Tick, UserStep, ServeWake, GiveUpWake, Wake, CancelStep, CancelFault,
       CancelStoreStep, CancelSignal, CancelKill, MonitorStep, CommandStep, MonWake, MonitorFault,
       Supervise, SupervisorStep, RecoveryPlanned, ExecSpawn, SupervisorFault, monVars,
       SupervisorStop, RefuseRecovery, RecoveryConflict, storeVars, ExecFrame,
       ExecRefused, ExecFailJob, supVars, PopDue, EndBatch, ExecLoad, ExecWait, ExecStart,
       ExecMark, ExecMove, ExecClaim, ExecSpawnError, ExecFailRun, ExecStorageError

(* Between the first SELECT of a recovery and the end of its transaction   *)
(* no run is claimed, so an interrupted job leaves no active run behind.   *)
LEMMA RecoveryStep ==
  ASSUME TypeInv, ExecAgrees, RecoveryAgrees, [Next]_vars
  PROVE  RecoveryAgrees'
<1> USE DEF TypeInv, TypeOK, SupervisorTypeOK, StoreTypeOK
<1>1. CASE UNCHANGED <<sup, found, plan>>
  <2>1. ASSUME sup # "up", NEW r \in Runs, runs'[r].state \in RunActive
        PROVE  runs[r].state \in RunActive /\ runs'[r].job = runs[r].job
    <3>1. ~NewlyClaimed(r)
      BY <2>1 DEF NewlyClaimed, ExecAgrees
    <3> QED
      BY <2>1, <3>1, ActiveBefore
  <2>2. sup = "jobs" => \A r \in Runs : runs'[r].state \in RunActive =>
                          r \in FoundRuns(runs'[r].job)
    BY <2>1 DEF RecoveryAgrees
  <2>3. ASSUME sup = "apply", NEW j \in Jobs, plan[j].act = "interrupt"
        PROVE  ActiveRuns(j)' \subseteq {plan[j].run}
    BY <2>1, <2>3 DEF RecoveryAgrees, ActiveRuns, RunsOf
  <2>4. \A j : FoundRuns(j)' = FoundRuns(j)
    BY <1>1 DEF FoundRuns
  <2> QED
    BY <1>1, <2>2, <2>3, <2>4 DEF RecoveryAgrees
<1>2. CASE LoadActiveRuns
  <2>1. /\ sup' = "jobs" /\ ~TwoActiveRuns
        /\ found' = [r \in Runs |-> IF runs[r].state \in RunActive THEN runs[r] ELSE NoFound[r]]
    BY <1>2 DEF LoadActiveRuns
  <2>2. \A j, r : r \in FoundRuns(j)' <=> r \in Runs /\ runs[r].state \in RunActive /\ runs[r].job = j
    BY <2>1 DEF FoundRuns, NoFound, RunActive
  <2>3. UNCHANGED runs
    BY <1>2 DEF Next, vars, Tick, UserStep, ServeWake, GiveUpWake, storeVars, supVars,
         LoadActiveRuns, Supervise, SupervisorStep, RecoveryPlanned, ExecSpawn, SupervisorFault,
         CancelStep, CancelFault, CancelStoreStep, CancelSignal, CancelKill, MonitorStep,
         CommandStep, MonWake, MonitorFault, PlanRecovery, SupervisorStop, ApplyRecovery,
         RecoveryConflict, CleanupRecovery, ExecWait, ExecStart, ExecClaim, ExecMark, ExecMove,
         ExecRefused, ExecFailRun, ExecFailJob, ExecSpawnError, ExecStorageError, ExecFrame,
         Stopped, Wake
  <2>4. \A j \in Jobs : \A r, q \in FoundRuns(j)' : r = q
    BY <2>1, <2>2 DEF TwoActiveRuns, ActiveRuns, RunsOf
  <2>5. \A r \in Runs : runs'[r].state \in RunActive => r \in FoundRuns(runs[r].job)'
    BY <2>2, <2>3
  <2> QED
    BY <2>1, <2>4, <2>5 DEF RecoveryAgrees
<1>3. CASE PlanRecovery(LiveMonitors) /\ UNCHANGED <<runs, mon>>
  <2>1. /\ sup = "jobs" /\ sup' = "apply" /\ found' = NoFound
        /\ plan' = plan_recovery(LiveMonitors)
    BY <1>3 DEF PlanRecovery
  <2>2. \A j \in Jobs : FoundRuns(j)' = {}
    BY <2>1 DEF FoundRuns, NoFound, RunActive
  <2>3. ASSUME NEW j \in Jobs, plan'[j].act = "interrupt"
        PROVE  ActiveRuns(j)' \subseteq {plan'[j].run}
    <3>1. plan'[j] = reconcile_active(j, LiveMonitors)
      BY <2>1, <2>3 DEF plan_recovery, reconcile_waiting, deadline, Leave
    <3>2. plan'[j] = interrupt_action(j, IF FoundRuns(j) = {} THEN NoRun
                                         ELSE CHOOSE r \in FoundRuns(j) : TRUE)
      BY <2>3, <3>1 DEF reconcile_active, Leave
    <3>3. plan'[j].run = IF FoundRuns(j) = {} THEN NoRun ELSE CHOOSE r \in FoundRuns(j) : TRUE
      BY <3>2 DEF interrupt_action, Leave
    <3>4. ASSUME NEW r \in ActiveRuns(j)' PROVE r = plan'[j].run
      <4>1. r \in FoundRuns(j)
        BY <1>3, <2>1, <3>4 DEF RecoveryAgrees, ActiveRuns, RunsOf
      <4>2. plan'[j].run \in FoundRuns(j)
        BY <3>3, <4>1
      <4> QED
        BY <4>1, <4>2 DEF RecoveryAgrees
    <3> QED
      BY <3>4
  <2> QED
    BY <2>1, <2>2, <2>3 DEF RecoveryAgrees
<1>4. CASE Stopped
  <2>1. sup' = "down" /\ found' = NoFound
    BY <1>4 DEF Stopped
  <2>2. \A j \in Jobs : FoundRuns(j)' = {}
    BY <2>1 DEF FoundRuns, NoFound, RunActive
  <2> QED
    BY <2>1, <2>2 DEF RecoveryAgrees
<1>5. CASE ApplyRecovery \/ CleanupRecovery
  <2>1. sup' \in {"clean", "up"} /\ found' = found
    BY <1>5 DEF ApplyRecovery, CleanupRecovery
  <2>2. \A j : FoundRuns(j)' = FoundRuns(j)
    BY <2>1 DEF FoundRuns
  <2> QED
    BY <2>1, <2>2 DEF RecoveryAgrees
<1> QED
  BY <1>1, <1>2, <1>3, <1>4, <1>5, SupervisorMovesOn

LEMMA RecordedStep ==
  ASSUME TypeInv, Recorded, [Next]_vars
  PROVE  Recorded'
<1> SUFFICES ASSUME NEW r \in Runs, mon'[r].pc \in {"load_job", "finish"}
             PROVE  runs'[r].state \notin RunActive
  BY DEF Recorded
<1>1. CASE mon[r].pc \in {"load_job", "finish"}
  <2>1. runs[r].state \notin RunActive /\ runs[r].job # NoJob
    BY <1>1, JobsAssumption DEF Recorded, TypeInv, Linked, MonLinked
  <2>2. RunMoves(r)
    BY RunsMove
  <2> QED
    BY <2>1, <2>2 DEF RunMoves, RunActive, run_transition, RunLegal
<1>2. CASE MonRecord(r)
  BY <1>2, RecordsActive DEF MonRecord
<1> QED
  BY <1>1, <1>2, LoadsWhatItRecorded, FinishesWhatItLoaded DEF MonLoadJob

(* An idle execution only wakes up when the loop, being up, pops a batch.  *)
LEMMA IdleUntilPopped ==
  ASSUME TypeInv, [Next]_vars, exec.pc = "idle"
  PROVE  exec'.pc = "idle" \/ PopDue
<1>1. CASE Stopped \/ EndBatch
  BY <1>1 DEF Stopped, EndBatch, Idle
<1>2. UNCHANGED exec \/ Stopped \/ EndBatch \/ PopDue
  BY DEF Next, vars, Tick, UserStep, ServeWake, GiveUpWake, Wake, CancelStep, CancelFault,
       CancelStoreStep, CancelSignal, CancelKill, MonitorStep, CommandStep, MonWake, MonitorFault,
       Supervise, SupervisorStep, RecoveryPlanned, PlanRecovery, ExecSpawn, SupervisorFault,
       SupervisorStop, LoadActiveRuns, RefuseRecovery, ApplyRecovery, RecoveryConflict,
       CleanupRecovery, ExecRefused, ExecFailJob, supVars, ExecLoad, ExecWait, ExecStart,
       ExecMark, ExecMove, ExecClaim, ExecSpawnError, ExecFailRun, ExecStorageError
<1> QED
  BY <1>1, <1>2

LEMMA OnlyWhenUp ==
  ASSUME TypeInv, ExecAgrees, [Next]_vars, sup' # "up"
  PROVE  exec'.pc = "idle"
<1>1. CASE Stopped
  BY <1>1 DEF Stopped, Idle
<1>2. ASSUME sup # "up" PROVE exec'.pc = "idle"
  BY <1>2, IdleUntilPopped DEF ExecAgrees, PopDue
<1>3. ASSUME sup = "up" PROVE Stopped
  BY <1>3, SupervisorMovesOn DEF LoadActiveRuns, PlanRecovery, ApplyRecovery, CleanupRecovery
<1> QED
  BY <1>1, <1>2, <1>3

LEMMA FinisherIsBusy ==
  ASSUME TypeInv, NEW r \in Runs, MonFinish(r)
  PROVE  /\ Busy(r) /\ runs[r].job \in Jobs /\ jobs[runs[r].job].state # "absent"
         /\ UNCHANGED runs /\ mon'[r].pc \in {"wake", "dead"}
<1>1. mon[r].pc = "finish" /\ runs[r].job \in Jobs
  BY DEF MonFinish, TypeInv, Linked, MonLinked
<1>2. /\ mon[r].rev = jobs[runs[r].job].rev /\ jobs[runs[r].job].state # "absent"
      /\ UNCHANGED runs
  BY DEF MonFinish, advance_recurring_job, transition_job, CanAdvance, CanTransition
<1>3. mon'[r].pc = AfterFinish(r)
  BY DEF MonFinish, NoMonitor, TypeInv, TypeOK, MonitorTypeOK
<1> QED
  BY <1>1, <1>2, <1>3 DEF Busy, AfterFinish

(* Nobody moves a job that an execution has started and not yet claimed.   *)
LEMMA StartedStays ==
  ASSUME Cancellers = {}, TypeInv, ExecAgrees, [Next]_vars, exec.pc = "claim"
  PROVE  jobs'[exec.job].state = "starting"
<1>1. /\ exec.job \in Jobs /\ jobs[exec.job].state = "starting" /\ Calm(exec.job)
      /\ sup = "up"
  BY DEF ExecAgrees, TypeInv, Linked, ExecLinked
<1> SUFFICES ASSUME jobs'[exec.job].state # "starting" PROVE FALSE
  OBVIOUS
<1>2. Mover(exec.job)
  BY <1>1, WhoMoves
<1>3. ~(\E r \in RunsOf(exec.job) : MonFinish(r))
  BY <1>1, FinisherIsBusy DEF Calm, RunsOf
<1>4. ~Submit(exec.job) /\ ~Rerun(exec.job)
  BY <1>1 DEF Submit, create, Rerun, prepare_rerun, JobTerminal
<1>5. ~(ExecWait \/ ExecStart \/ ExecMark \/ ExecFailJob)
  BY DEF ExecWait, ExecStart, ExecMark, ExecMove, ExecFailJob
<1>6. ~ApplyRecovery /\ ~CleanupRecovery
  BY <1>1 DEF ApplyRecovery, CleanupRecovery
<1> QED
  BY <1>2, <1>3, <1>4, <1>5, <1>6 DEF Mover

LEMMA FailedRunLeavesCalm ==
  ASSUME TypeInv, Loaded, Results, Agree, [Next]_vars, ExecFailRun
  PROVE  Calm(exec.job)' /\ exec'.job = exec.job
<1>1. /\ exec.pc = "fail_run" /\ exec.run \in Runs /\ exec.job \in Jobs
      /\ runs[exec.run].job = exec.job /\ mon[exec.run].pc = "none" /\ JobAgrees(exec.job)
  BY DEF ExecFailRun, TypeInv, Linked, ExecLinked, Agree, ExecAgrees, Results, Unspawned
<1>2. exec'.job = exec.job
  BY DEF ExecFailRun, TypeInv, TypeOK, SupervisorTypeOK
<1>3. /\ runs[exec.run].state \in RunActive /\ runs'[exec.run].state \notin RunActive
      /\ \A q \in Runs : runs'[q].job = runs[q].job
  BY <1>1, RecordsActive DEF ExecFailRun
<1>4. jobs[exec.job].state \in Underway
  BY <1>1, <1>3 DEF JobAgrees, ActiveRuns, RunsOf
<1>5. ASSUME NEW q \in Runs, runs'[q].job = exec.job PROVE ~Busy(q)'
  <2>1. CASE q = exec.run
    <3>1. /\ runs'[q].state \notin RunActive
          /\ mon'[q].pc \notin {"load_job", "finish"}
      BY <2>1, <1>1, <1>3, LoadsWhatItRecorded, FinishesWhatItLoaded DEF MonRecord, MonLoadJob
    <3> QED
      BY <3>1 DEF Busy
  <2>2. CASE q # exec.run
    <3>1. ~Busy(q)
      BY <1>1, <1>3, <1>4, <1>5, <2>2 DEF JobAgrees, RunsOf, Busy
    <3> QED
      BY <1>1, <1>3, <1>5, <3>1, IdleStays
  <2> QED
    BY <2>1, <2>2
<1>6. ASSUME NEW j \in Jobs, j = exec.job PROVE Calm(j)'
  BY <1>5, <1>6 DEF Calm, RunsOf
<1> QED
  BY <1>1, <1>2, <1>6

LEMMA ExecAgreesStep ==
  ASSUME Cancellers = {}, TypeInv, Loaded, Results, Agree, [Next]_vars
  PROVE  ExecAgrees'
<1> USE DEF Agree
<1>0. TypeInv'
  BY StepTypes
<1>1. sup' # "up" => exec'.pc = "idle"
  BY OnlyWhenUp
<1>2. ASSUME exec'.pc = "claim" PROVE jobs'[exec'.job].state = "starting" /\ Calm(exec.job)'
  <2>1. PICK j \in Jobs : j = exec.job
    BY <1>2, ExecutionGoesOn DEF ExecStart, ExecMove, TypeInv, Linked, ExecLinked
  <2>2. exec'.job = j /\ jobs'[j].state = "starting" /\ Calm(j)'
    <3>1. CASE UNCHANGED exec
      BY <1>2, <2>1, <3>1, StartedStays, CalmStays DEF ExecAgrees
    <3>2. CASE ExecStart
      <4>1. exec.pc = "start" /\ exec'.job = j /\ transition_job(j, exec.rev, "starting")
        BY <2>1, <3>2 DEF ExecStart, ExecMove, TypeInv, TypeOK, SupervisorTypeOK
      <4>2. jobs'[j].state = "starting" /\ jobs[j].state \in Pending
        BY <4>1, TransitionOfOne DEF OneShotLegal, Pending, Underway
      <4>3. Calm(j)'
        BY <4>1, <4>2, CalmStays DEF JobAgrees
      <4> QED
        BY <4>1, <4>2, <4>3
    <3> QED
      BY <1>2, <3>1, <3>2, ExecutionGoesOn
  <2> QED
    BY <2>2 DEF Calm, RunsOf
<1>3. ASSUME exec'.pc \in {"mark", "spawn", "fail_run"} PROVE runs'[exec'.run].job = exec'.job
  <2>1. CASE ExecClaim
    <3>1. PICK r \in NextRun : /\ claim_run(exec.job, exec.due, r)
                               /\ exec' = [exec EXCEPT !.pc = "mark", !.run = r]
      BY <2>1 DEF ExecClaim
    <3>2. r \in Runs
      BY DEF NextRun
    <3>3. runs'[r].job = exec.job
      BY <3>1, <3>2 DEF claim_run, TypeInv, TypeOK, StoreTypeOK
    <3>4. exec'.job = exec.job /\ exec'.run = r
      BY <3>1 DEF TypeInv, TypeOK, SupervisorTypeOK
    <3> QED
      BY <3>3, <3>4
  <2>2. CASE ~ExecClaim
    <3>1. /\ exec.pc \in {"mark", "spawn", "fail_run"}
          /\ exec'.run = exec.run /\ exec'.job = exec.job
      BY <1>3, <2>2, ExecutionGoesOn
    <3>2. exec.run \in Runs /\ runs[exec.run].job = exec.job
      BY <3>1 DEF ExecAgrees, TypeInv, Linked, ExecLinked
    <3> QED
      BY <3>1, <3>2, ClaimedStays DEF NewlyClaimed
  <2> QED
    BY <2>1, <2>2
<1>4. ASSUME exec'.pc = "fail_job" PROVE Calm(exec.job)'
  <2>1. CASE ExecFailRun
    BY <2>1, FailedRunLeavesCalm DEF Calm, RunsOf
  <2>2. CASE UNCHANGED exec
    <3>1. PICK j \in Jobs : j = exec.job
      BY <1>4, <2>2 DEF TypeInv, Linked, ExecLinked
    <3>2. Calm(j)'
      BY <1>4, <2>2, <3>1, CalmStays DEF ExecAgrees
    <3> QED
      BY <2>2, <3>1, <3>2 DEF Calm, RunsOf
  <2> QED
    BY <1>4, <2>1, <2>2, ExecutionGoesOn
<1> QED
  BY <1>1, <1>2, <1>3, <1>4 DEF ExecAgrees

LEMMA CalmAgrees ==
  ASSUME NEW j \in Jobs, Calm(j)'
  PROVE  JobAgrees(j)'
<1>1. \A r \in Runs : runs'[r].job = j => ~Busy(r)' /\ runs'[r].state \notin RunActive
  BY DEF Calm, RunsOf, Busy
<1> QED
  BY <1>1 DEF JobAgrees, Calm, ActiveRuns, RunsOf

(* A job that stays as it is.                                              *)
LEMMA AgreesUnmoved ==
  ASSUME TypeInv, Loaded, Agree, [Next]_vars, NEW j \in Jobs, jobs'[j].state = jobs[j].state
  PROVE  JobAgrees(j)'
<1> USE DEF Agree
<1>1. jobs[j].state \notin Underway => ~(exec.pc = "claim" /\ exec.job = j)
  BY DEF ExecAgrees, Underway
<1>2. CASE jobs[j].state \in Pending
  <2>1. Calm(j) /\ jobs[j].state \notin Underway
    BY <1>2 DEF JobAgrees, Pending, Underway
  <2> QED
    BY <1>1, <2>1, CalmStays, CalmAgrees
<1>3. CASE jobs[j].state \in Underway
  <2>1. \A r, q \in RunsOf(j) : Busy(r) /\ Busy(q) => r = q
    BY <1>3 DEF JobAgrees
  <2>2. \A r, q \in Runs : runs'[r].job = j /\ runs'[q].job = j /\ Busy(r)' /\ Busy(q)' => r = q
    BY <2>1, OneBusyStays
  <2>3. jobs'[j].state \in Underway /\ jobs'[j].state \notin Pending
    BY <1>3 DEF Underway, Pending
  <2> QED
    BY <2>2, <2>3 DEF JobAgrees, RunsOf
<1>4. CASE jobs[j].state \notin Pending \cup Underway
  <2>1. ActiveRuns(j)' = {}
    BY <1>1, <1>4, NoneActiveStays DEF JobAgrees
  <2> QED
    BY <1>4, <2>1 DEF JobAgrees
<1> QED
  BY <1>2, <1>3, <1>4

(* A job whose monitor finishes it: its run was the busy one.              *)
LEMMA AgreesFinished ==
  ASSUME TypeInv, Loaded, Agree, [Next]_vars, NEW r \in Runs, MonFinish(r)
  PROVE  Calm(runs[r].job)'
<1> USE DEF Agree
<1>1. PICK j \in Jobs : j = runs[r].job
  BY FinisherIsBusy
<1>2. /\ Busy(r) /\ jobs[j].state # "absent" /\ UNCHANGED runs
      /\ mon'[r].pc \in {"wake", "dead"} /\ mon[r].pc = "finish"
  BY <1>1, FinisherIsBusy DEF MonFinish
<1>3. runs'[r].state \notin RunActive
  BY <1>2 DEF Recorded
<1>4. jobs[j].state \notin JobTerminal
  <2>1. /\ mon[r].state \notin JobTerminal
        /\ mon[r].rev = jobs[j].rev => jobs[j].state \in {mon[r].state, "absent"}
    BY <1>1, <1>2 DEF Loaded, LoadedJob
  <2>2. mon[r].rev = jobs[j].rev
    BY <1>1, <1>2, <1>3 DEF Busy
  <2> QED
    BY <1>2, <2>1, <2>2
<1>5. jobs[j].state \notin Pending
  BY <1>1, <1>2 DEF JobAgrees, Calm, RunsOf
<1>6. jobs[j].state \in Underway
  <2>1. jobs[j].state \in JobRowState
    BY DEF TypeInv, TypeOK, StoreTypeOK, JobRow
  <2> QED
    BY <1>2, <1>4, <1>5, <2>1 DEF JobRowState, JobState, JobTerminal, Pending, Underway
<1>7. ASSUME NEW q \in Runs, runs'[q].job = j PROVE ~Busy(q)'
  <2>1. CASE q = r
    BY <1>2, <1>3, <2>1 DEF Busy
  <2>2. CASE q # r
    <3>1. ~Busy(q) /\ runs[q].job = j
      BY <1>1, <1>2, <1>6, <1>7, <2>2 DEF JobAgrees, RunsOf
    <3> QED
      BY <3>1, IdleStays
  <2> QED
    BY <2>1, <2>2
<1>8. Calm(j)'
  BY <1>7 DEF Calm, RunsOf
<1> QED
  BY <1>1, <1>2, <1>8

(* A job run again: the monitors that loaded it before hold an older       *)
(* revision, and none is about to load it.                                 *)
LEMMA AgreesAgain ==
  ASSUME TypeInv, Loaded, Agree, SettledStep, [Next]_vars, NEW j \in Jobs, Rerun(j)
  PROVE  Calm(j)'
<1> USE DEF Agree
<1>1. /\ jobs[j].state \in JobTerminal /\ jobs'[j].state = "waiting"
      /\ jobs'[j].rev = jobs[j].rev + 1 /\ UNCHANGED runs
  BY DEF Rerun, prepare_rerun, TypeInv, TypeOK, StoreTypeOK, JobRow
<1>2. ActiveRuns(j) = {}
  BY <1>1 DEF JobAgrees, JobTerminal, Underway
<1> SUFFICES ASSUME NEW r \in Runs, runs'[r].job = j PROVE ~Busy(r)'
  BY DEF Calm, RunsOf
<1>3. runs[r].job = j /\ runs'[r].state \notin RunActive /\ mon[r].pc # "load_job"
  BY <1>1, <1>2 DEF ActiveRuns, RunsOf, SettledStep
<1>4. ~MonRecord(r) /\ ~MonLoadJob(r)
  <2>1. jobs' # jobs
    BY <1>1 DEF JobTerminal
  <2> QED
    BY <1>3, <2>1 DEF MonRecord, record_run_terminal, MonLoadJob
<1>5. mon'[r].pc # "load_job"
  BY <1>3, <1>4, LoadsWhatItRecorded
<1>6. ASSUME mon'[r].pc = "finish" PROVE mon'[r].rev # jobs'[j].rev
  <2>1. mon'[r] = mon[r]
    BY <1>4, <1>6, FinishesWhatItLoaded
  <2>2. mon[r].rev <= jobs[j].rev
    BY <1>3, <1>6, <2>1 DEF Loaded, LoadedJob
  <2>3. mon[r].rev \in Nat /\ jobs[j].rev \in Nat
    BY DEF TypeInv, TypeOK, MonitorTypeOK, MonState, StoreTypeOK, JobRow
  <2> QED
    BY <1>1, <2>1, <2>2, <2>3
<1> QED
  BY <1>3, <1>5, <1>6 DEF Busy

(* A job that recovery has interrupted, or marked as missed.               *)
LEMMA AgreesRecovered ==
  ASSUME TypeInv, Loaded, Agree, [Next]_vars, NEW j \in Jobs, ApplyRecovery,
         jobs'[j].state # jobs[j].state
  PROVE  JobAgrees(j)'
<1> USE DEF Agree
<1>1. /\ sup = "apply" /\ StillValid(j) /\ jobs'[j] = Recovered(j)
      /\ \A r \in Runs : (\E i \in Jobs : plan[i].act = "interrupt" /\ plan[i].run = r)
                           => runs'[r].state = "interrupted"
      /\ \A r \in Runs : ~(\E i \in Jobs : plan[i].act = "interrupt" /\ plan[i].run = r)
                           => runs'[r] = runs[r]
  BY DEF ApplyRecovery, apply_recovery, TypeInv, TypeOK, StoreTypeOK, RunRow
<1>2. CASE plan[j].act = "interrupt"
  <2>1. jobs'[j].state = "interrupted"
    BY <1>1, <1>2 DEF Recovered, TypeInv, TypeOK, StoreTypeOK, JobRow
  <2>2. ActiveRuns(j) \subseteq {plan[j].run}
    BY <1>1, <1>2 DEF RecoveryAgrees
  <2>3. ASSUME NEW r \in Runs, runs'[r].job = j, runs'[r].state \in RunActive PROVE FALSE
    <3>1. runs'[r] = runs[r] /\ r # plan[j].run
      BY <1>1, <1>2, <2>3 DEF RunActive
    <3> QED
      BY <2>2, <2>3, <3>1 DEF ActiveRuns, RunsOf
  <2>4. ActiveRuns(j)' = {}
    BY <2>3 DEF ActiveRuns, RunsOf
  <2> QED
    BY <2>1, <2>4 DEF JobAgrees, Pending, Underway
<1>3. CASE plan[j].act = "missed"
  <2>1. Calm(j)
    BY <1>1, <1>3 DEF StillValid, JobAgrees
  <2> QED
    BY <1>1, <2>1, CalmStays, CalmAgrees DEF ExecAgrees
<1>4. CASE plan[j].act \notin {"interrupt", "missed"}
  <2>1. CASE plan[j].act = "advance"
    BY <1>1, <2>1 DEF Recovered, TypeInv, TypeOK, StoreTypeOK, JobRow
  <2> QED
    BY <1>1, <1>4, <2>1 DEF Recovered
<1> QED
  BY <1>2, <1>3, <1>4

LEMMA JobAgreesStep ==
  ASSUME Cancellers = {}, TypeInv, Loaded, AskedFirst, Agree, SettledStep, [Next]_vars,
         NEW j \in Jobs
  PROVE  JobAgrees(j)'
<1>0. CASE jobs'[j].state = jobs[j].state
  BY <1>0, AgreesUnmoved
<1> SUFFICES ASSUME jobs'[j].state # jobs[j].state PROVE JobAgrees(j)'
  BY <1>0
<1> USE DEF Agree
<1>1. CASE Submit(j)
  <2>1. UNCHANGED runs /\ permits[j] = 0
    BY <1>1 DEF Submit, create
  <2>2. \A r \in Runs : runs[r].job # j
    BY <2>1, JobsAssumption DEF AskedFirst, Asked
  <2>3. Calm(j)'
    BY <2>1, <2>2 DEF Calm, RunsOf
  <2> QED
    BY <2>3, CalmAgrees
<1>2. CASE Rerun(j)
  BY <1>2, AgreesAgain, CalmAgrees
<1>3. ASSUME NEW r \in RunsOf(j), MonFinish(r) PROVE JobAgrees(j)'
  <2>1. r \in Runs /\ runs[r].job = j /\ runs'[r].job = j
    BY <1>3, FinisherIsBusy DEF RunsOf
  <2>2. Calm(j)'
    BY <1>3, <2>1, AgreesFinished DEF Calm, RunsOf
  <2> QED
    BY <2>2, CalmAgrees
<1>4. CASE exec.job = j /\ (ExecWait \/ ExecStart)
  <2>1. /\ exec.pc \in {"wait", "start"}
        /\ transition_job(j, exec.rev, "waiting") \/ transition_job(j, exec.rev, "starting")
    BY <1>4 DEF ExecWait, ExecStart, ExecMove
  <2>2. jobs[j].state \in Pending
    BY <2>1, TransitionOfOne DEF OneShotLegal, Pending, Underway
  <2> QED
    BY <2>1, <2>2, CalmStays, CalmAgrees DEF JobAgrees
<1>5. CASE exec.job = j /\ ExecMark
  <2>1. transition_job(j, exec.rev, "running")
    BY <1>5 DEF ExecMark, ExecMove
  <2>2. jobs[j].state \in Underway /\ jobs'[j].state = "running"
    BY <2>1, TransitionOfOne DEF OneShotLegal, Pending, Underway
  <2>3. \A r, q \in RunsOf(j) : Busy(r) /\ Busy(q) => r = q
    BY <2>2 DEF JobAgrees
  <2>4. \A r, q \in Runs : runs'[r].job = j /\ runs'[q].job = j /\ Busy(r)' /\ Busy(q)' => r = q
    BY <2>3, OneBusyStays
  <2> QED
    BY <2>2, <2>4 DEF JobAgrees, RunsOf, Pending, Underway
<1>6. CASE exec.job = j /\ ExecFailJob
  <2>1. exec.pc = "fail_job"
    BY <1>6 DEF ExecFailJob
  <2> QED
    BY <1>6, <2>1, CalmStays, CalmAgrees DEF ExecAgrees
<1>7. CASE ApplyRecovery
  BY <1>7, AgreesRecovered
<1>8. CASE CleanupRecovery /\ jobs[j].state \in JobTerminal /\ jobs'[j].state = "absent"
  <2>1. ActiveRuns(j) = {} /\ ~(exec.pc = "claim" /\ exec.job = j)
    BY <1>8 DEF JobAgrees, ExecAgrees, JobTerminal, Underway
  <2>2. ActiveRuns(j)' = {}
    BY <2>1, NoneActiveStays
  <2> QED
    BY <1>8, <2>2 DEF JobAgrees, Pending, Underway
<1> QED
  BY <1>1, <1>2, <1>3, <1>4, <1>5, <1>6, <1>7, <1>8, WhoMoves DEF Mover

(* No job is run again while a monitor that has recorded the end of a run  *)
(* of it is yet to load the job.                                           *)
RerunsSettled == [][SettledStep]_vars

(* RowsAgree without its exception.                                        *)
AllRowsAgree == \A r \in Runs : runs[r].state \in RunActive => Agrees(r)

(* The rows agree, as recovery insists, when nobody cancels and no job is  *)
(* run again under a monitor that is yet to load it: through executions,   *)
(* crashes, storage errors, recoveries, retention and recurrences, a job   *)
(* has at most one active run, and only while it is underway, a job that   *)
(* was run again included.                                                 *)
THEOREM RowsAgreeHolds ==
  ASSUME Cancellers = {}
  PROVE  Spec /\ RerunsSettled => []AllRowsAgree
<1>1. Init => AskedFirst /\ Agree
  <2> SUFFICES ASSUME Init PROVE AskedFirst /\ Agree
    OBVIOUS
  <2>1. /\ \A r \in Runs : runs[r].state = "absent" /\ runs[r].job = NoJob /\ mon[r].pc = "none"
        /\ \A r \in Runs : found[r].state = "absent"
        /\ exec.pc = "idle" /\ sup = "down"
    BY DEF Init, StoreInit, SupervisorInit, MonitorInit, NoMonitor, NoFound, Idle
  <2>2. AskedFirst /\ Recorded /\ ExecAgrees
    BY <2>1 DEF AskedFirst, Begun, Recorded, ExecAgrees
  <2>3. RecoveryAgrees
    BY <2>1 DEF RecoveryAgrees, FoundRuns, RunActive
  <2>4. \A j \in Jobs : RunsOf(j) = {}
    BY <2>1, JobsAssumption DEF RunsOf
  <2>5. \A j \in Jobs : JobAgrees(j)
    BY <2>4 DEF JobAgrees, Calm, ActiveRuns
  <2> QED
    BY <2>2, <2>3, <2>5 DEF Agree
<1>2. /\ TypeInv /\ Stored /\ Loaded /\ Results /\ AskedFirst /\ Agree
      /\ [Next]_vars /\ [SettledStep]_vars
    => AskedFirst' /\ Agree'
  <2> SUFFICES ASSUME TypeInv, Stored, Loaded, Results, AskedFirst, Agree, [Next]_vars,
                      [SettledStep]_vars
               PROVE  AskedFirst' /\ Agree'
    OBVIOUS
  <2>1. SettledStep
    <3>1. CASE UNCHANGED vars
      BY <3>1 DEF SettledStep, vars, storeVars, JobTerminal
    <3> QED
      BY <3>1
  <2>2. AskedFirst'
    BY AskedStep
  <2>3. \A j \in Jobs : JobAgrees(j)'
    BY <2>1, JobAgreesStep
  <2>4. Recorded' /\ RecoveryAgrees'
    BY RecordedStep, RecoveryStep DEF Agree
  <2>5. ExecAgrees'
    BY ExecAgreesStep
  <2> QED
    BY <2>2, <2>3, <2>4, <2>5 DEF Agree
<1>3. TypeInv /\ Agree => AllRowsAgree
  <2> SUFFICES ASSUME TypeInv, Agree, NEW r \in Runs, runs[r].state \in RunActive
               PROVE  /\ jobs[runs[r].job].state \in Underway
                      /\ ActiveRuns(runs[r].job) = {r}
    BY DEF AllRowsAgree, Agrees
  <2>1. PICK j \in Jobs : j = runs[r].job
    BY DEF TypeInv, TypeOK, StoreTypeOK, RunRow, Linked, RunLinked, RunActive
  <2>2. r \in ActiveRuns(j) /\ jobs[j].state \in Underway
    BY <2>1 DEF Agree, JobAgrees, ActiveRuns, RunsOf
  <2>3. \A q \in ActiveRuns(j) : q = r
    BY <2>2 DEF Agree, JobAgrees, ActiveRuns, Busy
  <2> QED
    BY <2>1, <2>2, <2>3
<1> QED
  BY <1>1, <1>2, <1>3, TypeInvariant, LoadedInvariant, ResultsInvariant, PTL
     DEF Spec, RerunsSettled

(* With no reruns nothing is left to assume, and no job is left out: what  *)
(* the run "recovery" checks of its recurring job, for every number of     *)
(* jobs, runs and faults.                                                  *)
THEOREM RowsAgreeWithoutReruns ==
  ASSUME Cancellers = {}, MaxReruns = 0
  PROVE  Spec => [](RowsAgree /\ AllRowsAgree)
<1>1. TypeInv /\ Stored /\ Loaded /\ [Next]_vars => [SettledStep]_vars
  <2> SUFFICES ASSUME TypeInv, Stored, Loaded, [Next]_vars, NEW j \in Jobs,
                      jobs[j].state \in JobTerminal, jobs'[j].state = "waiting"
               PROVE  FALSE
    BY DEF SettledStep
  <2>1. permits[j] \in Nat /\ permits'[j] = permits[j] + 1
    <3>1. JobMoves(j)
      BY JobsMove
    <3> QED
      BY <3>1 DEF JobMoves, Stays, Deleted, Moves, RunsAgain, Created, JobTerminal,
           TypeInv, TypeOK, StoreTypeOK
  <2>2. permits[j] # 0
    BY DEF Stored, JobTerminal
  <2>3. Mover(j)
    BY WhoMoves DEF JobTerminal
  <2>4. ~Submit(j) /\ ~Rerun(j)
    BY <2>1, <2>2 DEF Submit, create, Rerun, prepare_rerun
  <2>5. permits' # permits
    BY <2>1
  <2> QED
    BY <2>3, <2>4, <2>5 DEF Mover, MonFinish, advance_recurring_job, transition_job, ExecWait,
         ExecStart, ExecMark, ExecMove, ExecFailJob, ApplyRecovery, apply_recovery,
         CleanupRecovery, cleanup_retention
<1>2. AllRowsAgree => RowsAgree
  BY DEF AllRowsAgree, RowsAgree
<1> QED
  BY <1>1, <1>2, RowsAgreeHolds, TypeInvariant, LoadedInvariant, PTL DEF Spec, RerunsSettled

===============================================================================
