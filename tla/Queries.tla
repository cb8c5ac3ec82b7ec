-------------------------------- MODULE Queries --------------------------------
(***************************************************************************)
(* The management commands that look at saved jobs and runs, beside the    *)
(* processes that write them (src/application/list.rs, history.rs,         *)
(* src/infrastructure/sqlite/management.rs, manage in src/cli/dispatch.rs). *)
(*                                                                         *)
(* A command of several statements is several steps: between two of them   *)
(* any writer of Records may act.  An answer is what is printed, without   *)
(* its layout.                                                             *)
(***************************************************************************)
EXTENDS Records, FiniteSets

VARIABLE cli   \* the command that runs, what it has read so far, and its answer

vars == <<recordVars, cli>>

Idle == [pc |-> "idle", op |-> "none", name |-> 0, state |-> "any", limit |-> 0, at |-> 0, done |-> 0, id |-> NoId,
         run |-> NoId, rev |-> 0, row |-> NoRunRow, truncated |-> FALSE, file |-> "none", got |-> <<>>]

(* A word that no id starts with because it is not written like one.       *)
NotAnId == -1

is_identifier(name) == name # NotAnId

(* A thousand in the code.                                                 *)
MAX_MANAGEMENT_RESULTS == 3

(* A thousand in the code, too; active_runs fetches one more.              *)
MAX_ACTIVE_RUNS == 1

validate_limit(limit) == limit \in 1..MAX_MANAGEMENT_RESULTS

(* substr(id, 1, ?1) = ?2: an id that starts with what the user typed.     *)
Matches(name, ids) == {i \in ids : name \in {i, i \div 10}}

Visible == {j \in JobRows : ~jobs[j].hidden}

(* list --state.                                                           *)
StateFilter(state) == {j \in Visible : state \in {"any", jobs[j].state}}

(* ORDER BY id LIMIT 2.                                                    *)
FirstTwo(ids) == {i \in ids : Cardinality({k \in ids : k < i}) < 2}

(* ORDER BY and LIMIT: the first rows, each before those that follow it    *)
(* and those that are cut off.                                             *)
Listing(ids, limit, Before(_, _)) ==
  LET n == IF Cardinality(ids) < limit THEN Cardinality(ids) ELSE limit
  IN  {s \in [1 .. n -> ids] :
         /\ \A i, k \in 1 .. n : i < k => Before(s[i], s[k])
         /\ \A r \in ids : (\A i \in 1 .. n : s[i] # r) => \A i \in 1 .. n : Before(s[i], r)}

ById(i, k) == i < k

(* active_runs: ORDER BY created_at_utc, id, on the text.                  *)
Older(r, q) ==
  LET a == TextRank(runs[r].created)
      b == TextRank(runs[q].created)
  IN  a < b \/ (a = b /\ r < q)

Newer_ById(r, q) == r > q

(* list_runs: ORDER BY created_at_utc DESC, id DESC, on the text.          *)
Newer(r, q) ==
  LET a == TextRank(runs[r].created)
      b == TextRank(runs[q].created)
  IN  a > b \/ (a = b /\ r > q)

list_runs(ids, limit) == Listing(ids, limit, Newer)

(* What is printed of a job, a run and a live process, apart from layout.  *)
JobView(j) ==
  [id |-> j, state |-> jobs[j].state, due |-> jobs[j].due, remaining |-> jobs[j].due - now]

RunView(r) == [id |-> r, row |-> runs[r], roles |-> {}]

ProcessView(view) ==
  [view EXCEPT !.roles = {"monitor"} \cup (IF mons[view.id].pc = "running" THEN {"command"} ELSE {})]

(* The command ends with an answer, and its output is read.                *)
Ends(answer) == cli' = [cli EXCEPT !.pc = answer, !.at = 0]

Reads(op, pc) == cli.op = op /\ cli.pc = pc /\ UNCHANGED recordVars

(* management_cli_error and output_cli_error: an answer per kind of error. *)
Answers == {"ok", "storage", "not_found", "ambiguous", "conflict", "no_runs", "not_captured",
            "missing", "usage"}

(* The next command is given; the clock of a rerun is read before the job  *)
(* is looked up.                                                           *)
Begin ==
  /\ cli.pc \in Answers \cup {"idle"}
  /\ cli.done < Len(load.commands)
  /\ LET c == load.commands[cli.done + 1]
     IN  cli' = [Idle EXCEPT !.pc = "first", !.op = c.op, !.name = c.name, !.state = c.state,
                             !.limit = c.limit, !.done = cli.done + 1,
                             !.at = IF c.op \in {"run", "run_yes"} THEN now ELSE 0]
  /\ UNCHANGED recordVars

(* resolve_job: at most two rows are fetched, and each must be readable.   *)
Resolve(then) ==
  LET found == FirstTwo(Matches(cli.name, Visible))
  IN  \/ ~is_identifier(cli.name) /\ Ends("not_found")
      \/ is_identifier(cli.name) /\ (\E j \in found : ~JobReadable(j)) /\ Ends("storage")
      \/ /\ is_identifier(cli.name) /\ \A j \in found : JobReadable(j)
         /\ \/ found = {} /\ Ends("not_found")
            \/ \E j \in found : found = {j} /\ cli' = [cli EXCEPT !.pc = then, !.id = j]
            \/ (\E j, k \in found : j # k) /\ Ends("ambiguous")

ShowRuns(ids, limit) ==
  \/ ~validate_limit(limit) /\ Ends("usage")
  \/ /\ validate_limit(limit)
     /\ \E found \in list_runs(ids, limit) :
          IF \A i \in DOMAIN found : RunReadable(found[i])
          THEN cli' = [cli EXCEPT !.pc = "ok", !.at = 0,
                                  !.got = [i \in DOMAIN found |-> RunView(found[i])]]
          ELSE Ends("storage")

-------------------------------------------------------------------------------
(* manage, one handler per command.                                        *)
List ==
  /\ Reads("list", "first")
  /\ \/ ~validate_limit(cli.limit) /\ Ends("usage")
     \/ /\ validate_limit(cli.limit)
        /\ \E found \in Listing(StateFilter(cli.state), cli.limit, ById) :
             IF \A i \in DOMAIN found : JobReadable(found[i])
             THEN cli' = [cli EXCEPT !.pc = "ok", !.got = [i \in DOMAIN found |-> JobView(found[i])]]
             ELSE Ends("storage")

Show ==
  \/ Reads("show", "first") /\ Resolve("second")
  \/ Reads("show", "second") /\ ShowRuns(RunsOf(cli.id), 1)

History ==
  \/ Reads("history", "first") /\ (IF cli.name = 0 THEN ShowRuns(RunRows, cli.limit) ELSE Resolve("second"))
  \/ Reads("history", "second") /\ ShowRuns(RunsOf(cli.id), cli.limit)

(* active_runs; the recorded identities are then classified.  Every active *)
(* row is printed with the processes of it that live.                      *)
Ps ==
  \/ /\ Reads("ps", "first")
     /\ \E found \in Listing(ActiveRuns, MAX_ACTIVE_RUNS + 1, Older) :
          IF Len(found) <= MAX_ACTIVE_RUNS /\ \A i \in DOMAIN found : RunReadable(found[i])
          THEN cli' = [cli EXCEPT !.pc = "second", !.got = [i \in DOMAIN found |-> RunView(found[i])]]
          ELSE Ends("storage")
  \/ /\ Reads("ps", "second")
     /\ LET live == SelectSeq(cli.got, LAMBDA v : v.row.started # NoTime
                                                    /\ mons[v.id].pc \notin {"none", "gone"})
        IN  cli' = [cli EXCEPT !.pc = "ok", !.got = [i \in DOMAIN live |-> ProcessView(live[i])]]

(* read_run_output: a run by its prefix, else the latest run of a job.     *)
Found(r) ==
  LET row == runs[r]
  IN  cli' = [cli EXCEPT !.id = r, !.row = row,
                         !.pc = IF row.started # NoTime THEN "flag"
                                ELSE IF row.state \in RunTerminal THEN "ok" ELSE "not_captured"]

FindRun ==
  LET found == FirstTwo(Matches(cli.name, RunRows))
  IN  /\ Reads("output", "first")
      /\ \/ ~is_identifier(cli.name) /\ Ends("not_found")
         \/ is_identifier(cli.name) /\ (\E r \in found : ~RunReadable(r)) /\ Ends("storage")
         \/ /\ is_identifier(cli.name) /\ \A r \in found : RunReadable(r)
            /\ \/ found = {} /\ cli' = [cli EXCEPT !.pc = "job"]
               \/ \E r \in found : found = {r} /\ Found(r)
               \/ (\E r, q \in found : r # q) /\ Ends("ambiguous")

LatestRun ==
  /\ Reads("output", "latest")
  /\ IF RunsOf(cli.id) = {} THEN Ends("no_runs")
     ELSE \E r \in RunsOf(cli.id) :
            /\ \A q \in RunsOf(cli.id) : runs[q].seq <= runs[r].seq
            /\ IF RunReadable(r) THEN Found(r) ELSE Ends("storage")

(* read_truncation_flag, then read_stream: the row may be gone by now.     *)
ReadFlag ==
  /\ Reads("output", "flag")
  /\ IF cli.id \in RunRows
     THEN cli' = [cli EXCEPT !.pc = "content", !.truncated = logs[cli.id].truncated]
     ELSE Ends("storage")

ReadStream ==
  /\ Reads("output", "content")
  /\ IF logs[cli.id].file = "none" THEN Ends("missing")
     ELSE cli' = [cli EXCEPT !.pc = "ok", !.file = logs[cli.id].file]

Output ==
  \/ FindRun
  \/ Reads("output", "job") /\ Resolve("latest")
  \/ LatestRun
  \/ ReadFlag
  \/ ReadStream

(* rerun_job and remove_job: the job is resolved, and the statement that   *)
(* changes it checks the revision that was read, so the two are one step.  *)
Confirmed(j) == jobs[j].state # "interrupted" \/ cli.op = "run_yes"

Rerun(j) == PrepareRerun(j, cli.at) /\ Confirmed(j) /\ Ends("ok")

RemoveJob(j) == HideJob(j, cli.op = "rm_keep") /\ Ends("ok")

(* A job whose state does not allow the change.                            *)
Conflicts(j) ==
  jobs[j].state \notin JobTerminal \/ (cli.op \in {"run", "run_yes"} /\ ~Confirmed(j))

Changes == {"run", "run_yes", "rm", "rm_keep"}

Change ==
  /\ cli.op \in Changes /\ cli.pc = "first"
  /\ \E j \in Visible :
        /\ Matches(cli.name, Visible) = {j} /\ JobReadable(j)
        /\ \/ cli.op \in {"run", "run_yes"} /\ Rerun(j)
           \/ cli.op \in {"rm", "rm_keep"} /\ RemoveJob(j)
           \/ Conflicts(j) /\ Ends("conflict") /\ UNCHANGED recordVars

(* cancel_job looks the job up; rm --cancel did so before.                 *)
CancelStarts ==
  (cli.op = "cancel" /\ cli.pc = "first") \/ (cli.op = "rm_cancel" /\ cli.pc = "cancel")

(* No job, an unreadable one, or more than one.                            *)
Refuse ==
  /\ (cli.op \in Changes \cup {"rm_cancel"} /\ cli.pc = "first") \/ CancelStarts
  /\ UNCHANGED recordVars
  /\ \A j \in Visible : Matches(cli.name, Visible) = {j} => ~JobReadable(j)
  /\ Resolve("first")

-------------------------------------------------------------------------------
(* cancel_job.  The request is granted: rm --cancel goes on with           *)
(* remove_job, which looks the job up again.                               *)
CancelOk ==
  IF cli.op = "cancel" THEN Ends("ok")
  ELSE cli' = [cli EXCEPT !.op = "rm", !.pc = "first", !.at = 0]

Cancelling(pc) == cli.op \in {"cancel", "rm_cancel"} /\ cli.pc = pc

(* A job that is cancelled, or being so, needs nothing; rm --cancel does   *)
(* not ask for one that is over.                                           *)
CancelResolve ==
  /\ UNCHANGED recordVars
  /\ \E j \in Visible :
        /\ Matches(cli.name, Visible) = {j} /\ JobReadable(j)
        /\ \/ /\ cli.op = "rm_cancel" /\ cli.pc = "first"
              /\ cli' = IF jobs[j].state \in JobTerminal THEN [cli EXCEPT !.op = "rm"]
                        ELSE [cli EXCEPT !.pc = "cancel"]
           \/ /\ CancelStarts
              /\ IF jobs[j].state \in {"cancelled", "cancel_requested"} THEN CancelOk
                 ELSE IF jobs[j].state \in JobTerminal THEN Ends("conflict")
                 ELSE cli' = [cli EXCEPT !.pc = "active", !.id = j]

(* latest_active_run, before the request is committed.                     *)
LatestActiveRun ==
  LET active == RunsOf(cli.id) \cap ActiveRuns
  IN  /\ Cancelling("active") /\ UNCHANGED recordVars
      /\ IF active = {} THEN cli' = [cli EXCEPT !.pc = "request"]
         ELSE \E r \in active :
                /\ \A q \in active : runs[q].seq <= runs[r].seq
                /\ IF RunReadable(r) THEN cli' = [cli EXCEPT !.pc = "request", !.run = r]
                   ELSE Ends("storage")

(* The loop that commits the request: it reads the row again whenever the  *)
(* revision, or the clock, is not as expected, and gives up in the end.    *)
RequestCancel ==
  /\ Cancelling("request")
  /\ LET j == cli.id
     IN  \/ /\ MoveJob(j, "cancel_requested", now)
            /\ cli' = [cli EXCEPT !.pc = IF cli.run = NoId THEN "end" ELSE "commit",
                                  !.at = now, !.rev = jobs[j].rev + 1]
         \/ /\ ~MayMove(j, "cancel_requested", now) /\ UNCHANGED recordVars
            /\ IF j \notin JobRows THEN Ends("not_found")
               ELSE IF ~JobReadable(j) THEN Ends("storage")
               ELSE IF jobs[j].state \in {"cancelled", "cancel_requested"} THEN CancelOk
               ELSE Ends("conflict")

(* No run was active: the job ends, unless another writer came between.    *)
EndCancelled ==
  /\ Cancelling("end")
  /\ \/ jobs[cli.id].rev = cli.rev /\ MoveJob(cli.id, "cancelled", cli.at) /\ CancelOk
     \/ /\ jobs[cli.id].rev # cli.rev \/ ~MayMove(cli.id, "cancelled", cli.at)
        /\ Ends("storage") /\ UNCHANGED recordVars

(* cancel_claimed_run: the run is read, then marked, then its group is     *)
(* signalled if it has one; the run may end in between.                    *)
CancelClaimed ==
  /\ Cancelling("commit")
  /\ LET r == cli.run
     IN  \/ /\ CommitCancellation(r)
            /\ IF runs[r].started = NoTime THEN cli' = [cli EXCEPT !.pc = "unstarted"]
               ELSE cli' = [cli EXCEPT !.pc = "wait"] \/ Ends("storage")
         \/ /\ r \notin ActiveRuns \/ ~RunReadable(r)
            /\ UNCHANGED recordVars
            /\ \/ r \in RunRows /\ RunReadable(r) /\ cli' = [cli EXCEPT !.pc = "wait"]
               \/ Ends("storage")

EndUnstarted ==
  /\ Cancelling("unstarted")
  /\ \/ RecordCancelled(cli.run) /\ cli' = [cli EXCEPT !.pc = "wait"]
     \/ /\ cli.run \in RunRows => ~MayRecord(cli.run, now, "cancelled")
        /\ Ends("storage") /\ UNCHANGED recordVars

(* The run is looked at until it is over, or the grace and two seconds are. *)
AwaitRun ==
  /\ Cancelling("wait") /\ UNCHANGED recordVars
  /\ IF cli.run \notin RunRows THEN Ends("conflict")
     ELSE IF ~RunReadable(cli.run) THEN Ends("storage")
     ELSE IF runs[cli.run].state \in RunTerminal
     THEN cli' = [cli EXCEPT !.pc = "finish", !.row = runs[cli.run]]
     ELSE Ends("conflict")

(* finish_job_cancellation: as the run ended; the monitor may have done it *)
(* already, and a recurring job may wait for its next occurrence.          *)
FinishCancel ==
  /\ Cancelling("finish")
  /\ LET j == cli.id
     IN  \/ MoveJob(j, cli.row.state, now) /\ CancelOk
         \/ /\ UNCHANGED recordVars
            /\ IF j \notin JobRows THEN Ends("not_found")
               ELSE IF ~JobReadable(j) THEN Ends("storage")
               ELSE IF jobs[j].state \in JobTerminal \cup {"waiting"} THEN CancelOk
               ELSE Ends("conflict")

Cancel ==
  CancelResolve \/ LatestActiveRun \/ RequestCancel \/ EndCancelled \/ CancelClaimed
    \/ EndUnstarted \/ AwaitRun \/ FinishCancel

Step ==
  Begin \/ List \/ Show \/ History \/ Ps \/ Output \/ Change \/ Refuse \/ Cancel

Init == RecordsInit /\ cli = Idle

Next == (RecordsStep /\ UNCHANGED cli) \/ Step

Spec == Init /\ [][Next]_vars

-------------------------------------------------------------------------------
(* The rows and the running command have the types of the tables.          *)
TypeOK ==
  /\ RecordsTypeOK
  /\ cli.pc \in Answers \cup {"idle", "first", "second", "job", "latest", "flag", "content",
                             "cancel", "active", "request", "end", "commit", "unstarted", "wait",
                             "finish"}
  /\ cli.at \in Time
  /\ cli.row \in RunRow
  /\ cli.id \in JobIds \cup RunIds \cup {NoId}
  /\ cli.run \in RunIds \cup {NoId}

(* With a clock that is never set back, Job::rehydrate and Run::rehydrate  *)
(* read back what was written, but for the rows of two writers that read   *)
(* the clock before they look the row up.  A rerun of a job that was       *)
(* created since makes it wait with an update time before its creation.    *)
(* Recovery ends a job without runs that was created and then asked to be  *)
(* cancelled since, before its creation, and a run that was marked as      *)
(* running since, before its start.                                        *)
RowsReadable ==
  faults.steps = 0 =>
    /\ \A j \in JobRows :
          \/ JobReadable(j)
          \/ jobs[j].state = "waiting" /\ jobs[j].updated = jobs[j].due
          \/ jobs[j].state = "interrupted" /\ RunsOf(j) = {}
    /\ \A r \in RunRows :
          RunReadable(r) \/ (runs[r].state = "interrupted" /\ runs[r].finished < runs[r].started)

(* atx output: the output of a run whose recorded outcome is the command's *)
(* own is printed whole, or is marked as cut (src/application/history.rs). *)
OutputIsWhole ==
  (cli.op = "output" /\ cli.pc = "ok" /\ cli.row.started # NoTime
     /\ cli.row.outcome \in {"exit_zero", "exit_nonzero", "cancelled"})
    => cli.file = "whole" \/ (cli.file = "cut" /\ cli.truncated)

(* cleanup_retention compares text and deletes the runs of a deleted job:  *)
(* the startup of a supervisor still removes no job and no run that is not *)
(* over, and none that ended, with its job when that is removed too, less  *)
(* than the retention before it, give or take a second.                    *)
RetentionSparesTheYoung ==
  [][Recover =>
       LET old(t, retention) == t # NoTime /\ t < sup.wall - retention + TicksPerSecond
       IN  /\ \A j \in JobRows : jobs'[j].state = "absent" =>
                jobs[j].state \in JobTerminal /\ old(jobs[j].updated, JobRetention)
           /\ \A r \in RunRows : runs'[r].state = "absent" =>
                /\ runs[r].state \in RunTerminal
                /\ jobs'[runs[r].job].state = "absent" \/ old(runs[r].finished, HistoryRetention)]_vars

(* atx history lists the newest run first, as far as the text of the       *)
(* timestamps tells: a run may only precede a younger one that was created *)
(* in the same second.                                                     *)
NewestFirst ==
  (cli.op = "history" /\ cli.pc = "ok") =>
    \A i, k \in DOMAIN cli.got :
      LET a == cli.got[i].row.created
          b == cli.got[k].row.created
      IN  i < k => a >= b \/ a \div TicksPerSecond = b \div TicksPerSecond

===============================================================================
