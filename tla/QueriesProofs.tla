----------------------------- MODULE QueriesProofs -----------------------------
(***************************************************************************)
(* What the rows and the commands that read them keep to, for any jobs,    *)
(* runs, workloads and resolution of the clock.                            *)
(***************************************************************************)
EXTENDS Queries, TLAPS

(* A row as it is written; its sequence number may be anything.            *)
RunShape(x) ==
  x \in [state : RunRowState, job : JobIds \cup {NoId}, seq : {x.seq}, slot : Nat, created : Time,
         started : Time \cup {NoTime}, finished : Time \cup {NoTime},
         outcome : RunOutcome \cup {"none"}, column : {"none", "exit", "failure"}]

(* What the columns of a run say of one another, whatever the clock does.  *)
Coherent(x) ==
  /\ x.state # "absent" => x.job \in JobIds /\ OutcomeHolds(x) /\ x.column = OutcomeColumn(x.outcome)
  /\ x.state \in {"absent", "starting"} => x.started = NoTime

Row(x) == RunShape(x) /\ Coherent(x)

CliShape(c) ==
  c \in [pc : {c.pc}, op : {c.op}, name : {c.name}, state : {c.state}, limit : {c.limit},
         at : Time, done : Nat, id : JobIds \cup RunIds \cup {NoId},
         run : RunIds \cup {NoId}, rev : {c.rev}, row : {c.row}, truncated : BOOLEAN, file : {c.file}, got : {c.got}]

Log == [file : {"none", "part", "whole", "cut"}, truncated : BOOLEAN]

MonitorRow == [pc : Monitor, finished : Time \cup {NoTime}]

Types ==
  /\ load \in Loads
  /\ now \in Time
  /\ faults \in [steps : Nat, deaths : Nat, starts : Nat]
  /\ jobs \in [JobIds -> JobRow]
  /\ runs = [r \in RunIds |-> runs[r]] /\ \A r \in RunIds : Row(runs[r])
  /\ logs \in [RunIds -> Log]
  /\ mons \in [RunIds -> MonitorRow]
  /\ sup \in [pc : {"starting", "serving", "down"}, wall : Time]
  /\ CliShape(cli)

-------------------------------------------------------------------------------
(* What the operations on a row give.                                      *)
LEMMA NoRow == Row(NoRunRow)
BY RecordsAssumption DEF Row, RunShape, Coherent, NoRunRow, RunRowState, NoId, NoTime, Time, RunOutcome

ClaimedRow(j, n, slot, t) ==
  [NoRunRow EXCEPT !.state = "starting", !.job = j, !.seq = n, !.slot = slot, !.created = t]

LEMMA RowClaimed ==
  ASSUME NEW j \in JobIds, NEW n, NEW slot \in Nat, NEW t \in Time
  PROVE  /\ Row(ClaimedRow(j, n, slot, t))
         /\ ClaimedRow(j, n, slot, t).state = "starting"
         /\ ClaimedRow(j, n, slot, t).created = t
         /\ ClaimedRow(j, n, slot, t).started = NoTime
         /\ ClaimedRow(j, n, slot, t).finished = NoTime
         /\ ClaimedRow(j, n, slot, t).outcome = "none"
         /\ ClaimedRow(j, n, slot, t).job = j
<1> DEFINE y == ClaimedRow(j, n, slot, t)
<1>1. /\ y.state = "starting" /\ y.job = j /\ y.seq = n /\ y.slot = slot /\ y.created = t
      /\ y.started = NoTime /\ y.finished = NoTime /\ y.outcome = "none" /\ y.column = "none"
  BY DEF ClaimedRow, NoRunRow
<1>2. RunShape(y)
  <2>1. NoRunRow \in [state : {"absent"}, job : {NoId}, seq : {0}, slot : {0}, created : {0},
                      started : {NoTime}, finished : {NoTime}, outcome : {"none"}, column : {"none"}]
    BY DEF NoRunRow
  <2>2. ClaimedRow(j, n, slot, t) \in
           [state : {"starting"}, job : {j}, seq : {n}, slot : {slot}, created : {t},
            started : {NoTime}, finished : {NoTime}, outcome : {"none"}, column : {"none"}]
    <3> HIDE DEF y
    <3> QED
      BY <2>1 DEF ClaimedRow
  <2> QED
    BY <1>1, <2>2 DEF RunShape, RunRowState, RunState
<1> HIDE DEF y
<1>3. Coherent(y)
  BY <1>1 DEF Coherent, OutcomeHolds, OutcomeColumn, RunTerminal
<1> QED
  BY <1>1, <1>2, <1>3 DEF Row, y

MarkedRow(x, t) == [x EXCEPT !.state = "running", !.started = t]

LEMMA RowMarked ==
  ASSUME NEW x, Row(x), x.state = "starting", NEW t \in Time
  PROVE  LET y == MarkedRow(x, t)
         IN  /\ Row(y) /\ y.state = "running" /\ y.started = t /\ y.created = x.created
             /\ y.job = x.job /\ y.finished = NoTime /\ y.outcome = "none"
<1> DEFINE y == MarkedRow(x, t)
<1>1. /\ y.state = "running" /\ y.started = t /\ y.created = x.created /\ y.finished = x.finished
      /\ y.outcome = x.outcome /\ y.job = x.job /\ y.seq = x.seq /\ y.column = x.column
  BY DEF Row, RunShape, MarkedRow
<1>2. RunShape(y)
  BY <1>1, RecordsAssumption DEF Row, RunShape, RunRowState, RunState, Time, NoTime, MarkedRow
<1>3. x.finished = NoTime /\ x.outcome = "none" /\ x.job \in JobIds /\ x.column = OutcomeColumn(x.outcome)
  BY DEF Row, Coherent, OutcomeHolds, RunTerminal
<1>4. Coherent(y)
  <2> HIDE DEF y
  <2> QED
    BY <1>1, <1>3 DEF Coherent, OutcomeHolds, RunTerminal
<1> QED
  BY <1>1, <1>2, <1>3, <1>4 DEF Row

LEMMA CompleteIs ==
  ASSUME NEW s, NEW o \in RunOutcome, complete_run(s, o) # "illegal"
  PROVE  /\ complete_run(s, o) = outcome_state(o)
         /\ outcome_state(o) \in RunTerminal
         /\ s \in RunActive
BY DEF complete_run, outcome_state, RunTerminal, RunOutcome, run_transition, RunLegal, RunActive

LEMMA RowEnded ==
  ASSUME NEW x, Row(x), NEW o \in RunOutcome, NEW t \in Time, complete_run(x.state, o) # "illegal"
  PROVE  LET y == WithOutcome(x, t, o)
         IN  /\ Row(y) /\ y.state = outcome_state(o) /\ y.state \in RunTerminal
             /\ y.started = x.started /\ y.created = x.created /\ y.job = x.job
             /\ y.finished = t /\ y.outcome = o
<1> DEFINE y == WithOutcome(x, t, o)
<1>0. complete_run(x.state, o) = outcome_state(o) /\ outcome_state(o) \in RunTerminal /\ x.state \in RunActive
  BY CompleteIs
<1>a. PICK s \in RunTerminal : s = complete_run(x.state, o) /\ s = outcome_state(o)
  BY <1>0
<1>b. PICK c \in {"none", "exit", "failure"} : c = OutcomeColumn(o)
  BY DEF OutcomeColumn
<1>c. y = [x EXCEPT !.state = s, !.finished = t, !.outcome = o, !.column = c]
  BY <1>a, <1>b DEF WithOutcome
<1>1. /\ y.state = s /\ y.started = x.started /\ y.created = x.created /\ y.finished = t
      /\ y.outcome = o /\ y.job = x.job /\ y.seq = x.seq /\ y.column = c
  <2> HIDE DEF y
  <2> QED
    BY <1>c DEF Row, RunShape
<1>2. RunShape(y)
  <2> HIDE DEF y
  <2> QED
    BY <1>c, <1>1, RecordsAssumption DEF Row, RunShape, RunRowState, RunState, RunTerminal, Time, NoTime
<1>3. x.job \in JobIds
  BY <1>0 DEF Row, Coherent, RunActive
<1>4. o # "none" /\ t # NoTime
  BY RecordsAssumption DEF RunOutcome, Time, NoTime
<1>5. Coherent(y)
  <2> HIDE DEF y
  <2>1. OutcomeHolds(y)
    BY <1>1, <1>4, <1>a DEF OutcomeHolds
  <2>2. y.state \notin {"absent", "starting"}
    BY <1>1 DEF RunTerminal
  <2> QED
    BY <2>1, <2>2, <1>1, <1>3, <1>b DEF Coherent
<1> QED
  BY <1>1, <1>2, <1>5, <1>a DEF Row

LEMMA RowRequested ==
  ASSUME NEW x, Row(x), x.state \in {"starting", "running", "cancel_requested"}
  PROVE  LET y == [x EXCEPT !.state = "cancel_requested"]
         IN  /\ Row(y) /\ y.state = "cancel_requested" /\ y.created = x.created
             /\ y.started = x.started /\ y.finished = x.finished /\ y.outcome = x.outcome
             /\ x.finished = NoTime /\ x.outcome = "none" /\ y.job = x.job
<1> DEFINE y == [x EXCEPT !.state = "cancel_requested"]
<1>1. /\ y.state = "cancel_requested" /\ y.started = x.started /\ y.created = x.created
      /\ y.finished = x.finished /\ y.outcome = x.outcome /\ y.job = x.job /\ y.seq = x.seq
      /\ y.column = x.column
  BY DEF Row, RunShape
<1>2. RunShape(y)
  BY <1>1, RecordsAssumption DEF Row, RunShape, RunRowState, RunState, Time, NoTime
<1>3. x.finished = NoTime /\ x.outcome = "none" /\ x.job \in JobIds /\ x.column = OutcomeColumn(x.outcome)
  BY DEF Row, Coherent, OutcomeHolds, RunTerminal
<1>4. Coherent(y)
  <2> HIDE DEF y
  <2> QED
    BY <1>1, <1>3 DEF Coherent, OutcomeHolds, RunTerminal
<1> QED
  BY <1>1, <1>2, <1>3, <1>4 DEF Row

Interrupted(x, t) ==
  [x EXCEPT !.state = "interrupted", !.finished = t, !.outcome = "interrupted", !.column = "failure"]

LEMMA RowInterrupted ==
  ASSUME NEW x, Row(x), x.state \in RunActive, NEW t \in Time
  PROVE  LET y == Interrupted(x, t)
         IN  /\ Row(y) /\ y.state = "interrupted" /\ y.created = x.created
             /\ y.started = x.started /\ y.finished = t /\ y.outcome = "interrupted" /\ y.job = x.job
<1> DEFINE y == Interrupted(x, t)
<1>1. /\ y.state = "interrupted" /\ y.started = x.started /\ y.created = x.created
      /\ y.finished = t /\ y.outcome = "interrupted" /\ y.job = x.job /\ y.seq = x.seq
      /\ y.column = "failure"
  BY DEF Row, RunShape, Interrupted
<1>2. RunShape(y)
  BY <1>1, RecordsAssumption
  DEF Row, RunShape, RunRowState, RunState, Time, NoTime, Interrupted, RunOutcome
<1>3. x.job \in JobIds /\ t # NoTime
  BY RecordsAssumption DEF Row, Coherent, RunActive, Time, NoTime
<1>4. Coherent(y)
  <2> HIDE DEF y
  <2> QED
    BY <1>1, <1>3 DEF Coherent, OutcomeHolds, RunTerminal, outcome_state, OutcomeColumn
<1> QED
  BY <1>1, <1>2, <1>4 DEF Row

-------------------------------------------------------------------------------
(* What a step may do to a run's row, to its monitor with its log, and to  *)
(* a job's row.                                                            *)
RunMoves(r) ==
  LET x == runs[r]
      y == runs'[r]
  IN  \/ y = x
      \/ y = NoRunRow
      \/ /\ sup.pc = "serving" /\ mons[r].pc = "none" /\ mons'[r].pc # "none"
         /\ y.created = now /\ y.started = NoTime /\ y.finished \in {NoTime, now}
         /\ y.outcome \in {"none", "failure"}
         /\ jobs[y.job].state \in Pending /\ jobs[y.job].created <= now
      \/ /\ x.state # "absent" /\ x.finished = NoTime /\ x.outcome = "none"
         /\ y.created = x.created /\ y.job = x.job /\ y.state # "starting"
         /\ \/ mons[r].pc = "starting" /\ x.state = "starting" /\ x.created <= now /\ y.started = now
               /\ y.finished = NoTime /\ y.outcome = "none"
            \/ y.started = x.started /\ x.created <= now /\ y.finished = now
               /\ (y.outcome = "failure" \/ (y.outcome = "cancelled" /\ cli.pc = "unstarted" /\ cli.run = r))
            \/ mons[r].pc = "flagged" /\ mons'[r].pc = "recorded" /\ y.started = x.started
               /\ y.finished = mons[r].finished /\ x.created <= mons[r].finished
               /\ (logs[r].file # "part" \/ y.outcome = "failure")
            \/ y.started = x.started /\ y.finished = NoTime /\ y.outcome = "none"
            \/ sup.pc = "starting" /\ y.started = x.started /\ y.finished = sup.wall
               /\ y.outcome = "interrupted" /\ y.state = "interrupted"

MonMoves(r) ==
  LET from == mons[r].pc
      to   == mons'[r].pc
  IN  \/ mons'[r] = mons[r] /\ logs'[r] = logs[r]
      \/ /\ logs'[r] = logs[r] /\ mons'[r].finished = mons[r].finished
         /\ \/ from = "none" /\ to = "starting"
            \/ from = "starting" /\ to = "recorded"
            \/ from = "flagged" /\ to = "recorded"
            \/ to = "gone"
      \/ from = "starting" /\ to = "running" /\ mons'[r].finished = mons[r].finished
      \/ from = "running" /\ to = "drained" /\ mons'[r].finished = now
         /\ logs'[r].file \in {"whole", "cut", "part"}
      \/ from = "drained" /\ to = "flagged" /\ mons'[r].finished = mons[r].finished
         /\ logs'[r].file = logs[r].file /\ (logs'[r].truncated <=> logs[r].file = "cut")

JobMoves(j) ==
  LET x == jobs[j]
      y == jobs'[j]
  IN  \/ y = x
      \/ y.state = "absent" /\ y.rev = 1
      \/ x.rev = 0 /\ y.rev = 1 /\ y.created = now /\ y.updated = now /\ y.due >= now /\ y.anchor >= now
         /\ y.state = "scheduled"
      \/ /\ x.state # "absent" /\ y.created = x.created /\ y.anchor = x.anchor
         /\ \/ y.state = x.state /\ y.due = x.due /\ y.rev = x.rev /\ y.updated = x.updated
            \/ /\ y.rev = x.rev + 1
               /\ \/ x.created <= x.updated /\ x.updated <= y.updated
                     /\ (y.due = x.due \/ y.due >= x.anchor)
                  \/ y.state = "waiting" /\ y.updated = y.due
                  \/ sup.pc = "starting" /\ sup'.pc = "serving" /\ y.updated = sup.wall
                     /\ x.created <= x.updated
                     /\ ((x.state \in Underway /\ y.state = "interrupted") \/ (x.state \in Pending /\ x.due <= sup.wall))
                     /\ (y.due = x.due \/ y.due >= x.anchor)

Moves ==
  /\ \A r \in RunIds : RunMoves(r) /\ MonMoves(r)
  /\ \A j \in JobIds : JobMoves(j)

RowTypes ==
  /\ load' \in Loads
  /\ now' \in Time
  /\ faults' \in [steps : Nat, deaths : Nat, starts : Nat]
  /\ jobs' \in [JobIds -> JobRow]
  /\ runs' = [r \in RunIds |-> runs'[r]] /\ \A r \in RunIds : Row(runs'[r])
  /\ logs' \in [RunIds -> Log]
  /\ mons' \in [RunIds -> MonitorRow]
  /\ sup' \in [pc : {"starting", "serving", "down"}, wall : Time]

LEMMA RunsStay == ASSUME UNCHANGED runs PROVE \A r \in RunIds : RunMoves(r)
BY DEF RunMoves

LEMMA MonsStay == ASSUME UNCHANGED <<mons, logs>> PROVE \A r \in RunIds : MonMoves(r)
BY DEF MonMoves

LEMMA JobsStay == ASSUME UNCHANGED jobs PROVE \A j \in JobIds : JobMoves(j)
BY DEF JobMoves

(* One row of the runs table is written.                                   *)
LEMMA RunWritten ==
  ASSUME Types, NEW q \in RunIds, NEW x, Row(x), runs' = [runs EXCEPT ![q] = x]
  PROVE  /\ runs' = [r \in RunIds |-> runs'[r]] /\ \A r \in RunIds : Row(runs'[r])
         /\ runs'[q] = x
         /\ \A r \in RunIds \ {q} : runs'[r] = runs[r]
<1>1. runs'[q] = x /\ \A r \in RunIds \ {q} : runs'[r] = runs[r]
  BY DEF Types
<1>2. \A r \in RunIds : Row(runs'[r])
  BY <1>1 DEF Types
<1>3. runs' = [r \in RunIds |-> runs'[r]]
  BY DEF Types
<1> QED
  BY <1>1, <1>2, <1>3

LEMMA NextDue ==
  ASSUME NEW a \in Nat, NEW n \in Nat
  PROVE  /\ next_fixed_rate_utc(a, n, TicksPerSecond) \in Nat
         /\ next_fixed_rate_utc(a, n, TicksPerSecond) >= a
<1>1. CASE n < a
  BY <1>1 DEF next_fixed_rate_utc
<1>2. CASE n >= a
  <2>1. PICK q \in Nat : q = (n - a) \div TicksPerSecond
    BY <1>2, RecordsAssumption
  <2>2. PICK p \in Nat : p = (q + 1) * TicksPerSecond
    BY <2>1, RecordsAssumption
  <2> QED
    BY <1>2, <2>1, <2>2 DEF next_fixed_rate_utc
<1> QED
  BY <1>1, <1>2

JobUpdated(x, s, t) == [x EXCEPT !.state = s, !.rev = x.rev + 1, !.updated = t]

LEMMA RowUpdated ==
  ASSUME NEW x \in JobRow, NEW s \in JobRowState, NEW t \in Time
  PROVE  LET y == JobUpdated(x, s, t)
         IN  /\ y \in JobRow /\ y.state = s /\ y.rev = x.rev + 1 /\ y.updated = t
             /\ y.created = x.created /\ y.due = x.due /\ y.anchor = x.anchor
<1>1. PICK n \in Nat : n = x.rev + 1
  BY DEF JobRow
<1>2. JobUpdated(x, s, t) = [x EXCEPT !.state = s, !.rev = n, !.updated = t]
  BY <1>1 DEF JobUpdated
<1> QED
  BY <1>1, <1>2 DEF JobRow

LEMMA UpdatedIs ==
  ASSUME Types, NEW j \in JobIds, NEW s, NEW t
  PROVE  Updated(j, s, t) = [jobs EXCEPT ![j] = JobUpdated(jobs[j], s, t)]
<1>1. jobs \in [JobIds -> JobRow] /\ jobs[j] \in JobRow
  BY DEF Types
<1> QED
  BY <1>1 DEF Updated, JobUpdated, JobRow

LEMMA JobWritten ==
  ASSUME Types, NEW i \in JobIds, NEW x \in JobRow, jobs' = [jobs EXCEPT ![i] = x]
  PROVE  /\ jobs' \in [JobIds -> JobRow]
         /\ jobs'[i] = x
         /\ \A j \in JobIds \ {i} : jobs'[j] = jobs[j]
BY DEF Types

LEMMA MonWritten ==
  ASSUME Types, NEW q \in RunIds, NEW p \in Monitor, mons' = [mons EXCEPT ![q].pc = p]
  PROVE  /\ mons' \in [RunIds -> MonitorRow]
         /\ mons'[q].pc = p /\ mons'[q].finished = mons[q].finished
         /\ \A r \in RunIds \ {q} : mons'[r] = mons[r]
<1>1. mons \in [RunIds -> MonitorRow] /\ mons[q] \in MonitorRow
  BY DEF Types
<1>2. mons'[q] = [mons[q] EXCEPT !.pc = p]
  BY <1>1
<1>3. mons'[q] \in MonitorRow /\ mons'[q].pc = p /\ mons'[q].finished = mons[q].finished
  BY <1>1, <1>2 DEF MonitorRow
<1> QED
  BY <1>1, <1>3

LEMMA FileWritten ==
  ASSUME Types, NEW q \in RunIds, NEW f \in {"none", "part", "whole", "cut"},
         logs' = [logs EXCEPT ![q].file = f]
  PROVE  /\ logs' \in [RunIds -> Log] /\ logs'[q].file = f
         /\ \A r \in RunIds \ {q} : logs'[r] = logs[r]
<1>1. logs \in [RunIds -> Log] /\ logs[q] \in Log
  BY DEF Types
<1>2. logs'[q] = [logs[q] EXCEPT !.file = f]
  BY <1>1
<1>3. logs'[q] \in Log /\ logs'[q].file = f
  BY <1>1, <1>2 DEF Log
<1> QED
  BY <1>1, <1>3

LEMMA FlagWritten ==
  ASSUME Types, NEW q \in RunIds, NEW b \in BOOLEAN, logs' = [logs EXCEPT ![q].truncated = b]
  PROVE  /\ logs' \in [RunIds -> Log] /\ logs'[q].file = logs[q].file /\ (logs'[q].truncated <=> b)
         /\ \A r \in RunIds \ {q} : logs'[r] = logs[r]
<1>1. logs \in [RunIds -> Log] /\ logs[q] \in Log
  BY DEF Types
<1>2. logs'[q] = [logs[q] EXCEPT !.truncated = b]
  BY <1>1
<1>3. logs'[q] \in Log /\ logs'[q].file = logs[q].file /\ (logs'[q].truncated <=> b)
  BY <1>1, <1>2 DEF Log
<1> QED
  BY <1>1, <1>3

-------------------------------------------------------------------------------
(* Each writer moves the rows so.                                          *)
LEMMA CreateMoves ==
  ASSUME Types, NEW i \in JobIds, CreateJob(i)
  PROVE  RowTypes /\ Moves
<1> DEFINE x == [state |-> "scheduled", rev |-> 1, created |-> now, updated |-> now,
                 due |-> now + TicksPerSecond, anchor |-> now + TicksPerSecond, hidden |-> FALSE]
<1>1. x \in JobRow
  BY RecordsAssumption DEF Types, JobRow, JobRowState, JobState, Time
<1>2. jobs' = [jobs EXCEPT ![i] = x] /\ jobs[i] = NoJobRow
  BY DEF CreateJob
<1>3. /\ x.rev = 1 /\ x.created = now /\ x.updated = now /\ x.due >= now /\ x.anchor >= now
      /\ x.state = "scheduled" /\ jobs[i].rev = 0
  BY <1>2, RecordsAssumption DEF Types, Time, NoJobRow
<1> HIDE DEF x
<1>4. /\ jobs' \in [JobIds -> JobRow] /\ jobs'[i] = x
      /\ \A j \in JobIds \ {i} : jobs'[j] = jobs[j]
  BY <1>1, <1>2, JobWritten
<1>5. \A j \in JobIds : JobMoves(j)
  BY <1>3, <1>4 DEF JobMoves
<1>6. UNCHANGED <<load, now, faults, runs, logs, mons, sup>>
  BY DEF CreateJob
<1>7. RowTypes
  BY <1>4, <1>6 DEF RowTypes, Types
<1> QED
  BY <1>5, <1>6, <1>7, RunsStay, MonsStay DEF Moves

LEMMA UpdateMoves ==
  ASSUME Types, NEW i \in JobIds, NEW s \in JobRowState, NEW t \in Time, jobs' = Updated(i, s, t),
         jobs[i].state # "absent", JobReadable(i), t >= jobs[i].updated
  PROVE  jobs' \in [JobIds -> JobRow] /\ \A j \in JobIds : JobMoves(j)
<1> DEFINE x == JobUpdated(jobs[i], s, t)
<1>1. jobs[i] \in JobRow
  BY DEF Types
<1>2. /\ x \in JobRow /\ x.state = s /\ x.rev = jobs[i].rev + 1 /\ x.updated = t
      /\ x.created = jobs[i].created /\ x.due = jobs[i].due /\ x.anchor = jobs[i].anchor
  BY <1>1, RowUpdated
<1>3. jobs' = [jobs EXCEPT ![i] = x]
  BY UpdatedIs
<1> HIDE DEF x
<1>4. /\ jobs' \in [JobIds -> JobRow] /\ jobs'[i] = x
      /\ \A j \in JobIds \ {i} : jobs'[j] = jobs[j]
  BY <1>2, <1>3, JobWritten
<1>5. jobs[i].updated <= t /\ jobs[i].created <= jobs[i].updated
  BY <1>1, RecordsAssumption DEF JobReadable, JobRow, Time
<1>6. JobMoves(i)
  BY <1>2, <1>4, <1>5 DEF JobMoves
<1>7. \A j \in JobIds \ {i} : JobMoves(j)
  BY <1>4 DEF JobMoves
<1> QED
  BY <1>4, <1>6, <1>7

LEMMA ExecuteMoves ==
  ASSUME Types, NEW j \in JobIds, NEW q \in RunIds, ExecuteDue(j, q)
  PROVE  RowTypes /\ Moves
<1> DEFINE c == ClaimedRow(j, NextSequence(j), jobs[j].due, now)
           e == WithOutcome(c, now, "failure")
<1>0. UNCHANGED <<load, now, faults, logs, sup>> /\ mons[q].pc = "none" /\ sup.pc = "serving"
  BY DEF ExecuteDue
<1>1. jobs[j].due \in Nat /\ now \in Time /\ jobs[j].state \in Pending
  BY DEF Types, JobRow, ExecuteDue
<1>2. Row(c) /\ c.state = "starting" /\ c.created = now /\ c.started = NoTime /\ c.finished = NoTime
      /\ c.outcome = "none" /\ c.job = j
  BY <1>1, RowClaimed
<1>3. Row(e) /\ e.created = now /\ e.started = NoTime /\ e.finished = now /\ e.outcome = "failure"
      /\ e.job = j
  <2>1. complete_run(c.state, "failure") # "illegal" /\ "failure" \in RunOutcome
    BY <1>2 DEF complete_run, outcome_state, run_transition, RunLegal, RunOutcome
  <2> HIDE DEF c
  <2> QED
    BY <2>1, <1>1, <1>2, RowEnded
<1>4. Claimed(j, q) = [runs EXCEPT ![q] = c]
  BY DEF Claimed, ClaimedRow
<1>5. Claimed(j, q)[q] = c
  <2> HIDE DEF c
  <2> QED
    BY <1>4 DEF Types
<1>6. ASSUME NEW s \in {"running", "failed"}, jobs' = Updated(j, s, now)
      PROVE  jobs' \in [JobIds -> JobRow] /\ \A i \in JobIds : JobMoves(i)
  <2>1. /\ s \in JobRowState /\ jobs[j].state # "absent" /\ JobReadable(j) /\ now >= jobs[j].updated
        /\ now \in Time
    BY <1>1 DEF JobRowState, JobState, Pending, ExecuteDue, MayUpdate
  <2> QED
    BY <1>6, <2>1, UpdateMoves
<1>7. ASSUME NEW y \in {c, e}, runs' = [runs EXCEPT ![q] = y],
             NEW p \in {"starting", "gone"}, mons' = [mons EXCEPT ![q].pc = p]
      PROVE  /\ runs' = [r \in RunIds |-> runs'[r]] /\ \A r \in RunIds : Row(runs'[r])
             /\ mons' \in [RunIds -> MonitorRow]
             /\ \A r \in RunIds : RunMoves(r) /\ MonMoves(r)
  <2> HIDE DEF c, e
  <2>1. Row(y) /\ y.created = now /\ y.started = NoTime /\ y.finished \in {NoTime, now}
        /\ y.outcome \in {"none", "failure"} /\ y.job = j
    BY <1>2, <1>3
  <2>2. /\ runs' = [r \in RunIds |-> runs'[r]] /\ \A r \in RunIds : Row(runs'[r])
        /\ runs'[q] = y /\ \A r \in RunIds \ {q} : runs'[r] = runs[r]
    BY <1>7, <2>1, RunWritten
  <2>3. p \in Monitor
    BY DEF Monitor
  <2>4. /\ mons' \in [RunIds -> MonitorRow]
        /\ mons'[q].pc = p /\ mons'[q].finished = mons[q].finished
        /\ \A r \in RunIds \ {q} : mons'[r] = mons[r]
    BY <1>7, <2>3, MonWritten
  <2>a. jobs[j].state \in Pending /\ jobs[j].created <= now
    <3>1. MayUpdate(j) /\ jobs[j] \in JobRow
      BY DEF ExecuteDue, Types
    <3> QED
      BY <1>1, <3>1, RecordsAssumption DEF MayUpdate, JobReadable, JobRow, Time
  <2>5. RunMoves(q)
    <3>1. mons'[q].pc # "none"
      BY <2>4
    <3> QED
      BY <2>1, <2>2, <2>a, <3>1, <1>0 DEF RunMoves
  <2>6. MonMoves(q)
    BY <2>4, <1>0 DEF MonMoves
  <2>7. \A r \in RunIds \ {q} : RunMoves(r) /\ MonMoves(r)
    BY <2>2, <2>4, <1>0 DEF RunMoves, MonMoves
  <2> QED
    BY <2>2, <2>4, <2>5, <2>6, <2>7
<1>8. \/ /\ jobs' = Updated(j, "running", now) /\ runs' = [runs EXCEPT ![q] = c]
         /\ mons' = [mons EXCEPT ![q].pc = "starting"]
      \/ /\ jobs' = Updated(j, "failed", now) /\ runs' = [runs EXCEPT ![q] = e]
         /\ mons' = [mons EXCEPT ![q].pc = "gone"]
  <2> HIDE DEF c
  <2> QED
    BY <1>4, <1>5 DEF ExecuteDue
<1> HIDE DEF c, e
<1>9. /\ jobs' \in [JobIds -> JobRow] /\ \A i \in JobIds : JobMoves(i)
      /\ runs' = [r \in RunIds |-> runs'[r]] /\ \A r \in RunIds : Row(runs'[r])
      /\ mons' \in [RunIds -> MonitorRow]
      /\ \A r \in RunIds : RunMoves(r) /\ MonMoves(r)
  BY <1>6, <1>7, <1>8
<1>10. RowTypes
  BY <1>0, <1>9 DEF RowTypes, Types
<1> QED
  BY <1>9, <1>10 DEF Moves

LEMMA MarkMoves ==
  ASSUME Types, NEW q \in RunIds, MarkRunning(q)
  PROVE  RowTypes /\ Moves
<1> DEFINE y == MarkedRow(runs[q], now)
<1>0. /\ UNCHANGED <<jobs, load, now, faults, sup>> /\ mons[q].pc = "starting"
      /\ runs[q].state = "starting" /\ now >= runs[q].created
      /\ mons' = [mons EXCEPT ![q].pc = "running"] /\ logs' = [logs EXCEPT ![q].file = "part"]
  BY DEF MarkRunning, MonitorMove, MonitorFrame
<1>1. Row(runs[q]) /\ now \in Time /\ runs[q].created \in Time
  BY DEF Types, Row, RunShape
<1>2. /\ Row(y) /\ y.started = now /\ y.created = runs[q].created /\ y.job = runs[q].job
      /\ y.finished = NoTime /\ y.outcome = "none" /\ y.state # "starting"
  BY <1>0, <1>1, RowMarked
<1>3. runs' = [runs EXCEPT ![q] = y]
  BY DEF MarkRunning, Types, MarkedRow
<1> HIDE DEF y
<1>4. /\ runs' = [r \in RunIds |-> runs'[r]] /\ \A r \in RunIds : Row(runs'[r])
      /\ runs'[q] = y /\ \A r \in RunIds \ {q} : runs'[r] = runs[r]
  BY <1>2, <1>3, RunWritten
<1>5. /\ mons' \in [RunIds -> MonitorRow]
      /\ mons'[q].pc = "running" /\ mons'[q].finished = mons[q].finished
      /\ \A r \in RunIds \ {q} : mons'[r] = mons[r]
  <2>1. "running" \in Monitor
    BY DEF Monitor
  <2> QED
    BY <1>0, <2>1, MonWritten
<1>6. logs' \in [RunIds -> Log] /\ \A r \in RunIds \ {q} : logs'[r] = logs[r]
  BY <1>0, FileWritten
<1>7. runs[q].finished = NoTime /\ runs[q].outcome = "none"
  BY <1>0, <1>1 DEF Row, Coherent, OutcomeHolds, RunTerminal
<1>8. RunMoves(q) /\ MonMoves(q)
  <2>1. runs[q].created <= now
    BY <1>0, <1>1, RecordsAssumption DEF Time
  <2> QED
    BY <2>1, <1>0, <1>2, <1>4, <1>5, <1>7 DEF RunMoves, MonMoves
<1>9. \A r \in RunIds \ {q} : RunMoves(r) /\ MonMoves(r)
  BY <1>4, <1>5, <1>6 DEF RunMoves, MonMoves
<1>10. RowTypes
  BY <1>0, <1>4, <1>5, <1>6 DEF RowTypes, Types
<1> QED
  BY <1>0, <1>8, <1>9, <1>10, JobsStay DEF Moves

(* MayRecord lets a run end.                                               *)
LEMMA RecordedMoves ==
  ASSUME Types, NEW q \in RunIds, NEW t \in Time \cup {NoTime}, NEW o \in RunOutcome,
         MayRecord(q, t, o), runs' = [runs EXCEPT ![q] = WithOutcome(runs[q], t, o)]
  PROVE  /\ runs' = [r \in RunIds |-> runs'[r]] /\ \A r \in RunIds : Row(runs'[r])
         /\ \A r \in RunIds \ {q} : RunMoves(r)
         /\ runs[q].state # "absent" /\ runs[q].finished = NoTime /\ runs[q].outcome = "none"
         /\ runs[q].created <= t
         /\ runs'[q].created = runs[q].created /\ runs'[q].job = runs[q].job
         /\ runs'[q].started = runs[q].started
         /\ runs'[q].finished = t /\ runs'[q].outcome = o /\ runs'[q].state # "starting"
<1> DEFINE y == WithOutcome(runs[q], t, o)
<1>1. Row(runs[q]) /\ runs[q].created \in Time
  BY DEF Types, Row, RunShape
<1>2. complete_run(runs[q].state, o) # "illegal" /\ t >= runs[q].created
  BY DEF MayRecord
<1>3. t \in Time /\ runs[q].created <= t
  BY <1>1, <1>2, RecordsAssumption DEF Time, NoTime
<1>4. /\ Row(y) /\ y.started = runs[q].started /\ y.created = runs[q].created /\ y.job = runs[q].job
      /\ y.finished = t /\ y.outcome = o /\ y.state \in RunTerminal
  BY <1>1, <1>2, <1>3, RowEnded
<1>a. y.state # "starting"
  BY <1>4 DEF RunTerminal
<1> HIDE DEF y
<1>5. /\ runs' = [r \in RunIds |-> runs'[r]] /\ \A r \in RunIds : Row(runs'[r])
      /\ runs'[q] = y /\ \A r \in RunIds \ {q} : runs'[r] = runs[r]
  <2>1. runs' = [runs EXCEPT ![q] = y]
    BY DEF y
  <2> QED
    BY <2>1, <1>4, RunWritten
<1>6. runs[q].state \in RunActive
  BY <1>2, CompleteIs
<1>7. runs[q].state # "absent" /\ runs[q].finished = NoTime /\ runs[q].outcome = "none"
  BY <1>1, <1>6 DEF Row, Coherent, OutcomeHolds, RunTerminal, RunActive
<1>8. \A r \in RunIds \ {q} : RunMoves(r)
  BY <1>5 DEF RunMoves
<1> QED
  BY <1>3, <1>4, <1>a, <1>5, <1>7, <1>8

LEMMA FailMoves ==
  ASSUME Types, NEW q \in RunIds, FailRun(q)
  PROVE  RowTypes /\ Moves
<1>0. /\ UNCHANGED <<jobs, logs, load, now, faults, sup>> /\ mons[q].pc = "starting"
      /\ mons' = [mons EXCEPT ![q].pc = "recorded"]
  BY DEF FailRun, MonitorMove, MonitorFrame
<1>1. runs' = [runs EXCEPT ![q] = WithOutcome(runs[q], now, "failure")] /\ MayRecord(q, now, "failure")
  BY DEF FailRun, Types
<1>2. now \in Time \cup {NoTime} /\ "failure" \in RunOutcome
  BY DEF Types, RunOutcome
<1>3. /\ runs' = [r \in RunIds |-> runs'[r]] /\ \A r \in RunIds : Row(runs'[r])
      /\ \A r \in RunIds \ {q} : RunMoves(r)
      /\ runs[q].state # "absent" /\ runs[q].finished = NoTime /\ runs[q].outcome = "none"
      /\ runs[q].created <= now
      /\ runs'[q].created = runs[q].created /\ runs'[q].job = runs[q].job
      /\ runs'[q].started = runs[q].started
      /\ runs'[q].finished = now /\ runs'[q].outcome = "failure" /\ runs'[q].state # "starting"
  BY <1>1, <1>2, RecordedMoves
<1>4. RunMoves(q)
  BY <1>3 DEF RunMoves
<1>5. /\ mons' \in [RunIds -> MonitorRow]
      /\ mons'[q].pc = "recorded" /\ mons'[q].finished = mons[q].finished
      /\ \A r \in RunIds \ {q} : mons'[r] = mons[r]
  <2>1. "recorded" \in Monitor
    BY DEF Monitor
  <2> QED
    BY <1>0, <2>1, MonWritten
<1>6. \A r \in RunIds : MonMoves(r)
  BY <1>0, <1>5 DEF MonMoves
<1>7. RowTypes
  BY <1>0, <1>3, <1>5 DEF RowTypes, Types
<1> QED
  BY <1>0, <1>3, <1>4, <1>6, <1>7, JobsStay DEF Moves

LEMMA TerminalMoves ==
  ASSUME Types, NEW q \in RunIds, RecordTerminal(q)
  PROVE  RowTypes /\ Moves
<1>0. /\ UNCHANGED <<jobs, logs, load, now, faults, sup>> /\ mons[q].pc = "flagged"
      /\ mons' = [mons EXCEPT ![q].pc = "recorded"]
  BY DEF RecordTerminal, MonitorMove, MonitorFrame
<1>1. PICK o \in Outcomes(q) :
        /\ runs' = [runs EXCEPT ![q] = WithOutcome(runs[q], mons[q].finished, o)]
        /\ MayRecord(q, mons[q].finished, o)
  BY DEF RecordTerminal, Types
<1>a. o \in RunOutcome /\ (logs[q].file # "part" \/ o = "failure")
  BY DEF RunOutcome, Outcomes
<1>2. mons[q].finished \in Time \cup {NoTime} /\ o \in RunOutcome
  BY <1>a DEF Types, MonitorRow
<1>3. /\ runs' = [r \in RunIds |-> runs'[r]] /\ \A r \in RunIds : Row(runs'[r])
      /\ \A r \in RunIds \ {q} : RunMoves(r)
      /\ runs[q].state # "absent" /\ runs[q].finished = NoTime /\ runs[q].outcome = "none"
      /\ runs[q].created <= mons[q].finished
      /\ runs'[q].created = runs[q].created /\ runs'[q].job = runs[q].job
      /\ runs'[q].started = runs[q].started
      /\ runs'[q].finished = mons[q].finished /\ runs'[q].outcome = o
      /\ runs'[q].state # "starting"
  BY <1>1, <1>2, RecordedMoves
<1>4. /\ mons' \in [RunIds -> MonitorRow]
      /\ mons'[q].pc = "recorded" /\ mons'[q].finished = mons[q].finished
      /\ \A r \in RunIds \ {q} : mons'[r] = mons[r]
  <2>1. "recorded" \in Monitor
    BY DEF Monitor
  <2> QED
    BY <1>0, <2>1, MonWritten
<1>5. RunMoves(q)
  BY <1>0, <1>3, <1>a, <1>4 DEF RunMoves
<1>6. \A r \in RunIds : MonMoves(r)
  BY <1>0, <1>4 DEF MonMoves
<1>7. RowTypes
  BY <1>0, <1>3, <1>4 DEF RowTypes, Types
<1> QED
  BY <1>0, <1>3, <1>5, <1>6, <1>7, JobsStay DEF Moves

LEMMA DrainMoves ==
  ASSUME Types, NEW q \in RunIds, Drained(q) \/ RecordTruncation(q)
  PROVE  RowTypes /\ Moves
<1>0. UNCHANGED <<jobs, runs, load, now, faults, sup>>
  BY DEF Drained, RecordTruncation, MonitorFrame
<1>1. ASSUME Drained(q)
      PROVE  /\ mons' \in [RunIds -> MonitorRow] /\ logs' \in [RunIds -> Log]
             /\ \A r \in RunIds : MonMoves(r)
  <2>1. mons[q].pc = "running" /\ mons' = [mons EXCEPT ![q] = [pc |-> "drained", finished |-> now]]
    BY <1>1 DEF Drained
  <2>2. /\ mons' \in [RunIds -> MonitorRow] /\ mons'[q].pc = "drained" /\ mons'[q].finished = now
        /\ \A r \in RunIds \ {q} : mons'[r] = mons[r]
    BY <2>1 DEF Types, MonitorRow, Monitor
  <2>3. PICK f \in {"whole", "cut", "part"} : logs' = [logs EXCEPT ![q].file = f]
    BY <1>1 DEF Drained
  <2>4. logs' \in [RunIds -> Log] /\ logs'[q].file = f /\ \A r \in RunIds \ {q} : logs'[r] = logs[r]
    BY <2>3, FileWritten
  <2> QED
    BY <2>1, <2>2, <2>4 DEF MonMoves
<1>2. ASSUME RecordTruncation(q)
      PROVE  /\ mons' \in [RunIds -> MonitorRow] /\ logs' \in [RunIds -> Log]
             /\ \A r \in RunIds : MonMoves(r)
  <2>1. mons[q].pc = "drained" /\ mons' = [mons EXCEPT ![q].pc = "flagged"]
    BY <1>2 DEF RecordTruncation, MonitorMove
  <2>2. /\ mons' \in [RunIds -> MonitorRow]
        /\ mons'[q].pc = "flagged" /\ mons'[q].finished = mons[q].finished
        /\ \A r \in RunIds \ {q} : mons'[r] = mons[r]
    <3>1. "flagged" \in Monitor
      BY DEF Monitor
    <3> QED
      BY <2>1, <3>1, MonWritten
  <2>3. PICK b \in BOOLEAN : logs' = [logs EXCEPT ![q].truncated = b] /\ (b <=> logs[q].file = "cut")
    BY <1>2 DEF RecordTruncation
  <2>4. /\ logs' \in [RunIds -> Log] /\ logs'[q].file = logs[q].file /\ (logs'[q].truncated <=> b)
        /\ \A r \in RunIds \ {q} : logs'[r] = logs[r]
    BY <2>3, FlagWritten
  <2>5. MonMoves(q)
    BY <2>1, <2>2, <2>3, <2>4 DEF MonMoves
  <2> QED
    BY <2>2, <2>4, <2>5 DEF MonMoves
<1>3. RowTypes
  BY <1>0, <1>1, <1>2 DEF RowTypes, Types
<1> QED
  BY <1>0, <1>1, <1>2, <1>3, JobsStay, RunsStay DEF Moves

LEMMA FinishMoves ==
  ASSUME Types, NEW q \in RunIds, FinishJob(q)
  PROVE  RowTypes /\ Moves
<1> DEFINE j == runs[q].job
           s == FinishTarget(q)
           x == JobUpdated(jobs[j], s, now)
           d == next_fixed_rate_utc(jobs[j].anchor, now, TicksPerSecond)
<1>0. /\ UNCHANGED <<runs, logs, load, now, faults, sup>> /\ mons' = [mons EXCEPT ![q].pc = "gone"]
      /\ CanFinish(q)
  BY DEF FinishJob, MonitorMove, MonitorFrame
<1>1. /\ runs[q].state # "absent" /\ jobs[j].state # "absent" /\ MayUpdate(j)
  BY <1>0 DEF CanFinish, RunRows, JobRows
<1>2. j \in JobIds /\ s \in JobRowState /\ now \in Time /\ now \in Nat
  <2>1. Row(runs[q])
    BY DEF Types
  <2>2. j \in JobIds /\ runs[q].state \in RunRowState
    BY <1>1, <2>1 DEF Row, RunShape, Coherent
  <2>3. s \in JobRowState
    BY <2>2 DEF FinishTarget, RunRowState, RunState, JobRowState, JobState
  <2> QED
    BY <2>2, <2>3, RecordsAssumption DEF Types, Time
<1>3. jobs[j] \in JobRow
  BY <1>2 DEF Types
<1>4. /\ x \in JobRow /\ x.state = s /\ x.rev = jobs[j].rev + 1 /\ x.updated = now
      /\ x.created = jobs[j].created /\ x.due = jobs[j].due /\ x.anchor = jobs[j].anchor
  BY <1>2, <1>3, RowUpdated
<1>5. d \in Nat /\ d >= jobs[j].anchor
  <2>1. jobs[j].anchor \in Nat
    BY <1>3 DEF JobRow
  <2> QED
    BY <2>1, <1>2, NextDue
<1>6. Updated(j, s, now) = [jobs EXCEPT ![j] = x]
  BY <1>2, UpdatedIs
<1>7. jobs' = IF s # "waiting" THEN [jobs EXCEPT ![j] = x] ELSE [[jobs EXCEPT ![j] = x] EXCEPT ![j].due = d]
  BY <1>6 DEF FinishJob
<1> HIDE DEF x, d, j, s
<1>8. PICK y \in JobRow :
        /\ jobs' = [jobs EXCEPT ![j] = y]
        /\ y.rev = jobs[j].rev + 1 /\ y.updated = now /\ y.created = jobs[j].created
        /\ y.anchor = jobs[j].anchor /\ (y.due = jobs[j].due \/ y.due >= jobs[j].anchor)
  <2>1. CASE s # "waiting"
    BY <2>1, <1>4, <1>7
  <2>2. CASE s = "waiting"
    <3> DEFINE y == [x EXCEPT !.due = d]
    <3>1. /\ y \in JobRow /\ y.rev = x.rev /\ y.updated = x.updated /\ y.created = x.created
          /\ y.anchor = x.anchor /\ y.due = d
      BY <1>4, <1>5 DEF JobRow
    <3>2. jobs' = [jobs EXCEPT ![j] = y]
      BY <2>2, <1>2, <1>7 DEF Types
    <3> HIDE DEF y
    <3> QED
      BY <3>1, <3>2, <1>4, <1>5
  <2> QED
    BY <2>1, <2>2
<1>9. /\ jobs' \in [JobIds -> JobRow] /\ jobs'[j] = y
      /\ \A i \in JobIds \ {j} : jobs'[i] = jobs[i]
  BY <1>2, <1>8, JobWritten
<1>10. JobMoves(j)
  <2>1. jobs[j].updated <= now /\ jobs[j].created <= jobs[j].updated
    BY <1>1, <1>2, <1>3, RecordsAssumption DEF MayUpdate, JobReadable, JobRow, Time
  <2> QED
    BY <2>1, <1>1, <1>8, <1>9 DEF JobMoves
<1>11. \A i \in JobIds : JobMoves(i)
  BY <1>9, <1>10 DEF JobMoves
<1>12. /\ mons' \in [RunIds -> MonitorRow]
       /\ mons'[q].pc = "gone" /\ mons'[q].finished = mons[q].finished
       /\ \A r \in RunIds \ {q} : mons'[r] = mons[r]
  <2>1. "gone" \in Monitor
    BY DEF Monitor
  <2> QED
    BY <1>0, <2>1, MonWritten
<1>13. \A r \in RunIds : MonMoves(r)
  BY <1>0, <1>12 DEF MonMoves
<1>14. RowTypes
  BY <1>0, <1>9, <1>12 DEF RowTypes, Types
<1> QED
  BY <1>0, <1>11, <1>13, <1>14, RunsStay DEF Moves

LEMMA MonitorGoneMoves ==
  ASSUME Types, NEW q \in RunIds, MonitorErrors(q) \/ MonitorDies(q)
  PROVE  RowTypes /\ Moves
<1>0. /\ UNCHANGED <<load, now, jobs, runs, logs, sup>> /\ mons' = [mons EXCEPT ![q].pc = "gone"]
      /\ faults' \in [steps : Nat, deaths : Nat, starts : Nat]
  <2>1. CASE MonitorErrors(q)
    BY <2>1 DEF MonitorErrors, Types
  <2>2. CASE MonitorDies(q)
    <3>1. faults \in [steps : Nat, deaths : Nat, starts : Nat]
      BY DEF Types
    <3>2. PICK n \in Nat : n = faults.deaths + 1
      BY <3>1
    <3>3. faults' = [faults EXCEPT !.deaths = n]
      BY <2>2, <3>2 DEF MonitorDies
    <3>4. faults' \in [steps : Nat, deaths : Nat, starts : Nat]
      BY <3>1, <3>3
    <3> QED
      BY <2>2, <3>4 DEF MonitorDies
  <2> QED
    BY <2>1, <2>2
<1>1. /\ mons' \in [RunIds -> MonitorRow]
      /\ mons'[q].pc = "gone" /\ mons'[q].finished = mons[q].finished
      /\ \A r \in RunIds \ {q} : mons'[r] = mons[r]
  <2>1. "gone" \in Monitor
    BY DEF Monitor
  <2> QED
    BY <1>0, <2>1, MonWritten
<1>2. \A r \in RunIds : MonMoves(r)
  BY <1>0, <1>1 DEF MonMoves
<1>3. RowTypes
  BY <1>0, <1>1 DEF RowTypes, Types
<1> QED
  BY <1>0, <1>2, <1>3, RunsStay, JobsStay DEF Moves

LEMMA ClockMoves ==
  ASSUME Types, SupervisorStarts \/ RecoveryFails \/ Tick \/ SetBack
  PROVE  RowTypes /\ Moves
<1>0. UNCHANGED <<load, jobs, runs, logs, mons>>
  BY DEF SupervisorStarts, RecoveryFails, Tick, SetBack
<1>1. faults \in [steps : Nat, deaths : Nat, starts : Nat] /\ now \in Time
      /\ sup \in [pc : {"starting", "serving", "down"}, wall : Time]
  BY DEF Types
<1>2. now' \in Time /\ faults' \in [steps : Nat, deaths : Nat, starts : Nat]
      /\ sup' \in [pc : {"starting", "serving", "down"}, wall : Time]
  <2>1. CASE SupervisorStarts
    <3>1. PICK n \in Nat : n = faults.starts + 1
      BY <1>1
    <3>2. faults' = [faults EXCEPT !.starts = n] /\ UNCHANGED now /\ sup' = [pc |-> "starting", wall |-> now]
      BY <2>1, <3>1 DEF SupervisorStarts
    <3> QED
      BY <1>1, <3>2
  <2>2. CASE RecoveryFails
    BY <1>1, <2>2, RecordsAssumption DEF RecoveryFails, Time
  <2>3. CASE Tick
    <3>1. load.ends \in Nat /\ load.ends <= MaxTime
      BY RecordsAssumption DEF Types
    <3> QED
      BY <1>1, <2>3, <3>1, RecordsAssumption DEF Tick, Time
  <2>4. CASE SetBack
    <3>1. PICK n \in Nat : n = faults.steps + 1
      BY <1>1
    <3>2. faults' = [faults EXCEPT !.steps = n] /\ UNCHANGED sup
      BY <2>4, <3>1 DEF SetBack
    <3>3. now' \in Time
      BY <1>1, <2>4, RecordsAssumption DEF SetBack, Time
    <3> QED
      BY <1>1, <3>2, <3>3
  <2> QED
    BY <2>1, <2>2, <2>3, <2>4
<1>3. RowTypes
  BY <1>0, <1>2 DEF RowTypes, Types
<1> QED
  BY <1>0, <1>3, RunsStay, JobsStay, MonsStay DEF Moves

LEMMA RerunMoves ==
  ASSUME Types, NEW i \in JobIds, NEW t \in Time, PrepareRerun(i, t)
  PROVE  RowTypes /\ Moves
<1> DEFINE x == JobUpdated(jobs[i], "waiting", t)
           y == [x EXCEPT !.due = t]
<1>0. UNCHANGED <<load, now, faults, runs, logs, mons, sup>> /\ jobs[i].state # "absent"
  BY DEF PrepareRerun, JobRows
<1>1. jobs[i] \in JobRow /\ "waiting" \in JobRowState /\ t \in Nat
  BY RecordsAssumption DEF Types, JobRowState, JobState, Time
<1>2. /\ x \in JobRow /\ x.state = "waiting" /\ x.rev = jobs[i].rev + 1 /\ x.updated = t
      /\ x.created = jobs[i].created /\ x.anchor = jobs[i].anchor
  BY <1>1, RowUpdated
<1>3. Updated(i, "waiting", t) = [jobs EXCEPT ![i] = x]
  BY UpdatedIs
<1>4. jobs' = [[jobs EXCEPT ![i] = x] EXCEPT ![i].due = t]
  BY <1>3 DEF PrepareRerun
<1> HIDE DEF x
<1>5. /\ y \in JobRow /\ y.rev = x.rev /\ y.updated = x.updated /\ y.created = x.created
      /\ y.anchor = x.anchor /\ y.due = t /\ y.state = x.state
  BY <1>1, <1>2 DEF JobRow
<1>6. jobs' = [jobs EXCEPT ![i] = y]
  BY <1>4 DEF Types
<1> HIDE DEF y
<1>7. /\ jobs' \in [JobIds -> JobRow] /\ jobs'[i] = y
      /\ \A j \in JobIds \ {i} : jobs'[j] = jobs[j]
  BY <1>5, <1>6, JobWritten
<1>8. JobMoves(i)
  BY <1>0, <1>2, <1>5, <1>7 DEF JobMoves
<1>9. \A j \in JobIds : JobMoves(j)
  BY <1>7, <1>8 DEF JobMoves
<1>10. RowTypes
  BY <1>0, <1>7 DEF RowTypes, Types
<1> QED
  BY <1>0, <1>9, <1>10, RunsStay, MonsStay DEF Moves

LEMMA HideMoves ==
  ASSUME Types, NEW i \in JobIds, NEW keep \in BOOLEAN, HideJob(i, keep)
  PROVE  RowTypes /\ Moves
<1> DEFINE y == [jobs[i] EXCEPT !.hidden = TRUE]
<1>0. UNCHANGED <<load, now, faults, logs, mons, sup>> /\ jobs[i].state # "absent"
  BY DEF HideJob, JobRows
<1>1. jobs[i] \in JobRow
  BY DEF Types
<1>2. /\ y \in JobRow /\ y.rev = jobs[i].rev /\ y.updated = jobs[i].updated
      /\ y.created = jobs[i].created /\ y.anchor = jobs[i].anchor /\ y.due = jobs[i].due
      /\ y.state = jobs[i].state
  BY <1>1 DEF JobRow
<1>3. jobs' = [jobs EXCEPT ![i] = y]
  BY DEF HideJob, Types
<1> HIDE DEF y
<1>4. /\ jobs' \in [JobIds -> JobRow] /\ jobs'[i] = y
      /\ \A j \in JobIds \ {i} : jobs'[j] = jobs[j]
  BY <1>2, <1>3, JobWritten
<1>5. JobMoves(i)
  BY <1>0, <1>2, <1>4 DEF JobMoves
<1>6. \A j \in JobIds : JobMoves(j)
  BY <1>4, <1>5 DEF JobMoves
<1>7. /\ runs' = [r \in RunIds |-> runs'[r]]
      /\ \A r \in RunIds : runs'[r] \in {NoRunRow, runs[r]}
  BY DEF HideJob
<1>8. \A r \in RunIds : Row(runs'[r]) /\ RunMoves(r)
  BY <1>7, NoRow DEF Types, RunMoves
<1>9. RowTypes
  BY <1>0, <1>4, <1>7, <1>8 DEF RowTypes, Types
<1> QED
  BY <1>0, <1>6, <1>8, <1>9, MonsStay DEF Moves

LEMMA TransitionMoves ==
  ASSUME Types, NEW i, NEW s, NEW t \in Time, MoveJob(i, s, t)
  PROVE  RowTypes /\ Moves
<1>0. UNCHANGED <<load, now, faults, runs, logs, mons, sup>> /\ jobs' = Updated(i, s, t)
  BY DEF MoveJob
<1>1. i \in JobIds /\ jobs[i].state # "absent" /\ JobReadable(i) /\ t >= jobs[i].updated
  BY DEF MoveJob, MayMove, JobRows
<1>2. s \in JobRowState
  BY DEF MoveJob, MayMove, job_transition, OneShotLegal, JobRowState, JobState
<1>3. jobs' \in [JobIds -> JobRow] /\ \A j \in JobIds : JobMoves(j)
  BY <1>0, <1>1, <1>2, UpdateMoves
<1>4. RowTypes
  BY <1>0, <1>3 DEF RowTypes, Types
<1> QED
  BY <1>0, <1>3, <1>4, RunsStay, MonsStay DEF Moves

LEMMA CommitMoves ==
  ASSUME Types, NEW q, CommitCancellation(q)
  PROVE  /\ RowTypes /\ Moves
         /\ q \in RunIds /\ runs[q].state # "absent"
         /\ runs'[q].state = "cancel_requested" /\ runs'[q].started = runs[q].started
<1> DEFINE y == [runs[q] EXCEPT !.state = "cancel_requested"]
<1>0. UNCHANGED <<load, now, faults, jobs, logs, mons, sup>>
  BY DEF CommitCancellation
<1>1. q \in RunIds /\ runs[q].state \in {"starting", "running", "cancel_requested"}
  BY DEF CommitCancellation, ActiveRuns, RunRows, RunActive
<1>2. Row(runs[q])
  BY <1>1 DEF Types
<1>3. /\ Row(y) /\ y.state = "cancel_requested" /\ y.created = runs[q].created
      /\ y.started = runs[q].started /\ y.finished = runs[q].finished /\ y.outcome = runs[q].outcome
      /\ runs[q].finished = NoTime /\ runs[q].outcome = "none" /\ y.job = runs[q].job
  BY <1>1, <1>2, RowRequested
<1>4. runs' = [runs EXCEPT ![q] = y]
  BY <1>1 DEF CommitCancellation, Types
<1> HIDE DEF y
<1>5. /\ runs' = [r \in RunIds |-> runs'[r]] /\ \A r \in RunIds : Row(runs'[r])
      /\ runs'[q] = y /\ \A r \in RunIds \ {q} : runs'[r] = runs[r]
  BY <1>1, <1>3, <1>4, RunWritten
<1>6. RunMoves(q)
  BY <1>1, <1>3, <1>5 DEF RunMoves
<1>7. \A r \in RunIds : RunMoves(r)
  BY <1>5, <1>6 DEF RunMoves
<1>8. RowTypes
  BY <1>0, <1>5 DEF RowTypes, Types
<1> QED
  BY <1>0, <1>1, <1>3, <1>5, <1>7, <1>8, MonsStay, JobsStay DEF Moves

LEMMA CancelledMoves ==
  ASSUME Types, RecordCancelled(cli.run), cli.pc = "unstarted"
  PROVE  RowTypes /\ Moves
<1> DEFINE q == cli.run
<1>0. UNCHANGED <<load, now, faults, jobs, logs, mons, sup>>
  BY DEF RecordCancelled
<1>1. /\ q \in RunIds /\ MayRecord(q, now, "cancelled")
      /\ runs' = [runs EXCEPT ![q] = WithOutcome(runs[q], now, "cancelled")]
  BY DEF RecordCancelled, RunRows, Types
<1>2. now \in Time \cup {NoTime} /\ "cancelled" \in RunOutcome
  BY DEF Types, RunOutcome
<1>3. /\ runs' = [r \in RunIds |-> runs'[r]] /\ \A r \in RunIds : Row(runs'[r])
      /\ \A r \in RunIds \ {q} : RunMoves(r)
      /\ runs[q].state # "absent" /\ runs[q].finished = NoTime /\ runs[q].outcome = "none"
      /\ runs[q].created <= now
      /\ runs'[q].created = runs[q].created /\ runs'[q].job = runs[q].job
      /\ runs'[q].started = runs[q].started
      /\ runs'[q].finished = now /\ runs'[q].outcome = "cancelled" /\ runs'[q].state # "starting"
  BY <1>1, <1>2, RecordedMoves
<1>4. RunMoves(q)
  BY <1>3 DEF RunMoves
<1>5. RowTypes
  BY <1>0, <1>3 DEF RowTypes, Types
<1> QED
  BY <1>0, <1>3, <1>4, <1>5, MonsStay, JobsStay DEF Moves

LEMMA JobRecovered ==
  ASSUME Types, NEW j \in JobIds
  PROVE  LET x == jobs[j]
             y == RecoveredJob(j)
         IN  /\ y \in JobRow
             /\ \/ y = x
                \/ /\ x.state # "absent" /\ y.created = x.created /\ y.anchor = x.anchor
                   /\ y.rev = x.rev + 1 /\ y.updated = sup.wall
                   /\ \/ x.state \in Underway /\ y.state = "interrupted"
                      \/ x.state \in Pending /\ x.due <= sup.wall
                   /\ y.due = x.due \/ y.due >= x.anchor
<1> DEFINE x == jobs[j]
           row == [x EXCEPT !.rev = x.rev + 1, !.updated = sup.wall]
           d == next_fixed_rate_utc(x.anchor, sup.wall, TicksPerSecond)
           y == RecoveredJob(j)
<1>1. x \in JobRow /\ sup.wall \in Time /\ x.anchor \in Nat /\ sup.wall \in Nat
  BY RecordsAssumption DEF Types, JobRow, Time
<1>2. /\ row \in JobRow /\ row.created = x.created /\ row.anchor = x.anchor
      /\ row.rev = x.rev + 1 /\ row.updated = sup.wall /\ row.due = x.due
  <2>1. PICK n \in Nat : n = x.rev + 1
    BY <1>1 DEF JobRow
  <2>2. row = [x EXCEPT !.rev = n, !.updated = sup.wall]
    BY <2>1
  <2> HIDE DEF x, row
  <2> QED
    BY <1>1, <2>1, <2>2 DEF JobRow
<1>3. d \in Nat /\ d >= x.anchor
  BY <1>1, NextDue
<1>4. CASE Orphaned(j)
  <2>1. y = [row EXCEPT !.state = "interrupted"]
    BY <1>4 DEF RecoveredJob, Orphaned, Overdue, Underway, Pending
  <2>2. x.state \in Underway /\ x.state # "absent"
    BY <1>4 DEF Orphaned, Underway
  <2> HIDE DEF x, row, y
  <2>3. /\ y \in JobRow /\ y.created = row.created /\ y.anchor = row.anchor
        /\ y.rev = row.rev /\ y.updated = row.updated /\ y.due = row.due /\ y.state = "interrupted"
    BY <1>2, <2>1 DEF JobRow, JobRowState, JobState
  <2> QED
    BY <1>2, <2>2, <2>3 DEF x, y
<1>5. CASE ~Orphaned(j) /\ Overdue(j)
  <2>1. y = [row EXCEPT !.due = d] \/ y = [row EXCEPT !.state = "missed"]
    BY <1>5 DEF RecoveredJob
  <2>2. x.due <= sup.wall /\ x.state \in Pending /\ x.state # "absent"
    BY <1>5 DEF Overdue, Pending
  <2> HIDE DEF x, row, y, d
  <2>3. /\ y \in JobRow /\ y.created = row.created /\ y.anchor = row.anchor
        /\ y.rev = row.rev /\ y.updated = row.updated /\ y.due \in {row.due, d}
    <3>1. CASE y = [row EXCEPT !.due = d]
      BY <1>2, <1>3, <3>1 DEF JobRow
    <3>2. CASE y = [row EXCEPT !.state = "missed"]
      BY <1>2, <3>2 DEF JobRow, JobRowState, JobState
    <3> QED
      BY <2>1, <3>1, <3>2
  <2> QED
    BY <1>2, <1>3, <2>2, <2>3 DEF x, y
<1>6. CASE ~Orphaned(j) /\ ~Overdue(j)
  <2>1. y = x
    BY <1>6 DEF RecoveredJob
  <2> QED
    BY <1>1, <2>1
<1> QED
  BY <1>4, <1>5, <1>6

LEMMA RunRecovered ==
  ASSUME Types, NEW r \in RunIds
  PROVE  LET y == RecoveredRun(r)
         IN  /\ Row(y) /\ y.job = runs[r].job
             /\ \/ y = runs[r]
                \/ /\ runs[r].state \in RunActive /\ Orphaned(runs[r].job)
                   /\ y.created = runs[r].created /\ y.started = runs[r].started
                   /\ y.finished = sup.wall /\ y.outcome = "interrupted" /\ y.state = "interrupted"
<1> DEFINE y == RecoveredRun(r)
<1>1. Row(runs[r]) /\ sup.wall \in Time
  BY DEF Types
<1>2. CASE r \in ActiveRuns /\ Orphaned(runs[r].job)
  <2>1. y = Interrupted(runs[r], sup.wall) /\ runs[r].state \in RunActive
    BY <1>2 DEF RecoveredRun, Interrupted, ActiveRuns
  <2> QED
    BY <1>1, <1>2, <2>1, RowInterrupted
<1>3. CASE ~(r \in ActiveRuns /\ Orphaned(runs[r].job))
  BY <1>1, <1>3 DEF RecoveredRun
<1> QED
  BY <1>2, <1>3

LEMMA RecoverMoves ==
  ASSUME Types, Recover
  PROVE  RowTypes /\ Moves
<1> DEFINE gone == [NoJobRow EXCEPT !.rev = 1]
<1>0. /\ UNCHANGED <<load, now, faults, logs, mons>> /\ sup.pc = "starting"
      /\ sup' = [pc |-> "serving", wall |-> 0]
  BY DEF Recover
<1>1. /\ jobs' = [j \in JobIds |-> jobs'[j]]
      /\ \A j \in JobIds : jobs'[j] = RecoveredJob(j) \/ jobs'[j] = gone
      /\ runs' = [r \in RunIds |-> runs'[r]]
      /\ \A r \in RunIds : runs'[r] = RecoveredRun(r) \/ runs'[r] = NoRunRow
  BY DEF Recover
<1>2. gone \in JobRow /\ gone.state = "absent" /\ gone.rev = 1
  <2>1. NoJobRow \in JobRow /\ NoJobRow.state = "absent"
    BY RecordsAssumption DEF NoJobRow, JobRow, JobRowState, Time
  <2> QED
    BY <2>1 DEF JobRow
<1>3. sup'.pc = "serving" /\ sup' \in [pc : {"starting", "serving", "down"}, wall : Time]
  BY <1>0, RecordsAssumption DEF Time
<1> HIDE DEF gone
<1>4. ASSUME NEW j \in JobIds
      PROVE  jobs'[j] \in JobRow /\ JobMoves(j)
  <2>1. CASE jobs'[j] = gone
    BY <1>2, <2>1 DEF JobMoves
  <2>2. CASE jobs'[j] = RecoveredJob(j)
    <3>1. /\ jobs'[j] \in JobRow
          /\ \/ jobs'[j] = jobs[j]
             \/ /\ jobs[j].state # "absent" /\ jobs'[j].created = jobs[j].created
                /\ jobs'[j].anchor = jobs[j].anchor
                /\ jobs'[j].rev = jobs[j].rev + 1 /\ jobs'[j].updated = sup.wall
                /\ \/ jobs[j].state \in Underway /\ jobs'[j].state = "interrupted"
                   \/ jobs[j].state \in Pending /\ jobs[j].due <= sup.wall
                /\ jobs'[j].due = jobs[j].due \/ jobs'[j].due >= jobs[j].anchor
      BY <2>2, JobRecovered
    <3>2. jobs[j].state \in Underway \cup Pending => jobs[j].created <= jobs[j].updated
      BY DEF Recover, Loaded, JobRows, JobReadable, JobTerminal, Underway, Pending
    <3> QED
      BY <1>0, <1>3, <3>1, <3>2 DEF JobMoves
  <2> QED
    BY <1>1, <2>1, <2>2
<1>5. ASSUME NEW r \in RunIds
      PROVE  Row(runs'[r]) /\ RunMoves(r)
  <2>1. CASE runs'[r] = NoRunRow
    BY <2>1, NoRow DEF RunMoves
  <2>2. CASE runs'[r] = RecoveredRun(r)
    <3>1. /\ Row(runs'[r]) /\ runs'[r].job = runs[r].job
          /\ \/ runs'[r] = runs[r]
             \/ /\ runs[r].state \in RunActive
                /\ runs'[r].created = runs[r].created /\ runs'[r].started = runs[r].started
                /\ runs'[r].finished = sup.wall /\ runs'[r].outcome = "interrupted"
                /\ runs'[r].state = "interrupted"
      BY <2>2, RunRecovered
    <3>2. runs[r].state \in RunActive => runs[r].finished = NoTime /\ runs[r].outcome = "none"
                                           /\ runs[r].state # "absent"
      BY DEF Types, Row, Coherent, OutcomeHolds, RunActive, RunTerminal
    <3> QED
      BY <1>0, <3>1, <3>2 DEF RunMoves
  <2> QED
    BY <1>1, <2>1, <2>2
<1>6. jobs' \in [JobIds -> JobRow]
  BY <1>1, <1>4
<1>7. RowTypes
  BY <1>0, <1>1, <1>3, <1>5, <1>6 DEF RowTypes, Types
<1> QED
  BY <1>0, <1>4, <1>5, <1>7, MonsStay DEF Moves

LEMMA WritersMove ==
  ASSUME Types, RecordsStep
  PROVE  RowTypes /\ Moves
BY CreateMoves, ExecuteMoves, MarkMoves, FailMoves, DrainMoves, TerminalMoves, FinishMoves,
   MonitorGoneMoves, ClockMoves, RecoverMoves DEF RecordsStep

-------------------------------------------------------------------------------
(* What a step may do to the running command.                              *)
NewestGot ==
  \A i, k \in DOMAIN cli.got :
    LET a == cli.got[i].row.created
        b == cli.got[k].row.created
    IN  i < k => a >= b \/ a \div TicksPerSecond = b \div TicksPerSecond

CliMoves ==
  /\ cli'.pc = "unstarted" =>
        \/ cli' = cli
        \/ /\ cli'.run \in RunIds /\ runs[cli'.run].state # "absent"
           /\ runs'[cli'.run].state = "cancel_requested" /\ runs'[cli'.run].started = NoTime
  /\ cli'.op = "output" /\ cli'.pc \in {"flag", "content", "ok"} =>
        \/ cli' = cli
        \/ /\ cli'.id \in RunRows /\ cli'.row = runs[cli'.id]
           /\ cli'.pc = "flag" \/ cli'.row.started = NoTime
        \/ /\ cli.op = "output" /\ cli.pc = "flag" /\ cli'.pc = "content"
           /\ cli'.id = cli.id /\ cli'.row = cli.row /\ (cli'.truncated <=> logs[cli.id].truncated)
        \/ /\ cli.op = "output" /\ cli.pc = "content" /\ cli'.pc = "ok"
           /\ cli'.id = cli.id /\ cli'.row = cli.row /\ (cli'.truncated <=> cli.truncated)
           /\ cli'.file = logs[cli.id].file
  /\ cli'.op = "history" /\ cli'.pc = "ok" => cli' = cli \/ NewestGot'

(* The writes of its steps.                                                *)
WithAt(c, p, a) == [c EXCEPT !.pc = p, !.at = a]
WithId(c, p, i) == [c EXCEPT !.pc = p, !.id = i]
WithGot(c, p, g) == [c EXCEPT !.pc = p, !.got = g]
WithAnswer(c, g) == [c EXCEPT !.pc = "ok", !.at = 0, !.got = g]
WithRow(c, i, x, p) == [c EXCEPT !.id = i, !.row = x, !.pc = p]
WithFlag(c, b) == [c EXCEPT !.pc = "content", !.truncated = b]
WithFile(c, f) == [c EXCEPT !.pc = "ok", !.file = f]
WithOp(c, o) == [c EXCEPT !.op = o]
WithPc(c, p) == [c EXCEPT !.pc = p]
WithRun(c, p, r) == [c EXCEPT !.pc = p, !.run = r]
WithRev(c, p, a, n) == [c EXCEPT !.pc = p, !.at = a, !.rev = n]
WithEnded(c, p, x) == [c EXCEPT !.pc = p, !.row = x]
Restarted(c, o) == [c EXCEPT !.op = o, !.pc = "first", !.at = 0]

LEMMA AtWritten ==
  ASSUME NEW c, CliShape(c), NEW p, NEW a \in Time
  PROVE  LET d == WithAt(c, p, a)
         IN  CliShape(d) /\ d.pc = p /\ d.at = a /\ d.op = c.op /\ d.name = c.name
BY DEF CliShape, WithAt

LEMMA IdWritten ==
  ASSUME NEW c, CliShape(c), NEW p, NEW i \in JobIds \cup RunIds
  PROVE  LET d == WithId(c, p, i)
         IN  CliShape(d) /\ d.pc = p /\ d.id = i /\ d.op = c.op /\ d.name = c.name /\ d.at = c.at
BY DEF CliShape, WithId

LEMMA GotWritten ==
  ASSUME NEW c, CliShape(c), NEW p, NEW g
  PROVE  LET d == WithGot(c, p, g)
         IN  CliShape(d) /\ d.pc = p /\ d.got = g /\ d.op = c.op /\ d.name = c.name /\ d.at = c.at
BY DEF CliShape, WithGot

LEMMA AnswerWritten ==
  ASSUME NEW c, CliShape(c), NEW g
  PROVE  LET d == WithAnswer(c, g)
         IN  CliShape(d) /\ d.pc = "ok" /\ d.got = g /\ d.op = c.op /\ d.name = c.name /\ d.at = 0
<1>1. 0 \in Time
  BY RecordsAssumption DEF Time
<1> QED
  BY <1>1 DEF CliShape, WithAnswer

LEMMA RowWritten ==
  ASSUME NEW c, CliShape(c), NEW p, NEW i \in RunIds, NEW x
  PROVE  LET d == WithRow(c, i, x, p)
         IN  CliShape(d) /\ d.pc = p /\ d.id = i /\ d.row = x /\ d.op = c.op /\ d.name = c.name
             /\ d.at = c.at
BY DEF CliShape, WithRow

LEMMA TruncatedWritten ==
  ASSUME NEW c, CliShape(c), NEW b \in BOOLEAN
  PROVE  LET d == WithFlag(c, b)
         IN  CliShape(d) /\ d.pc = "content" /\ (d.truncated <=> b) /\ d.id = c.id /\ d.row = c.row
             /\ d.op = c.op /\ d.name = c.name /\ d.at = c.at
<1> DEFINE d == WithFlag(c, b)
<1>1. /\ d.pc = "content" /\ (d.truncated <=> b) /\ d.id = c.id /\ d.row = c.row
      /\ d.op = c.op /\ d.name = c.name /\ d.at = c.at /\ d.got = c.got /\ d.file = c.file
      /\ d.state = c.state /\ d.limit = c.limit
  BY DEF CliShape, WithFlag
<1>2. CliShape(d)
  BY <1>1 DEF CliShape, WithFlag
<1> QED
  BY <1>1, <1>2

LEMMA ContentWritten ==
  ASSUME NEW c, CliShape(c), NEW f
  PROVE  LET d == WithFile(c, f)
         IN  CliShape(d) /\ d.pc = "ok" /\ d.file = f /\ (d.truncated <=> c.truncated) /\ d.id = c.id
             /\ d.row = c.row /\ d.op = c.op /\ d.name = c.name /\ d.at = c.at
<1> DEFINE d == WithFile(c, f)
<1>1. /\ d.pc = "ok" /\ d.file = f /\ (d.truncated <=> c.truncated) /\ d.id = c.id /\ d.row = c.row
      /\ d.op = c.op /\ d.name = c.name /\ d.at = c.at /\ d.got = c.got
      /\ d.state = c.state /\ d.limit = c.limit
  BY DEF CliShape, WithFile
<1>2. CliShape(d)
  BY <1>1 DEF CliShape, WithFile
<1> QED
  BY <1>1, <1>2

LEMMA OpWritten ==
  ASSUME NEW c, CliShape(c), NEW o
  PROVE  LET d == WithOp(c, o)
         IN  CliShape(d) /\ d.pc = c.pc /\ d.op = o /\ d.name = c.name /\ d.at = c.at
BY DEF CliShape, WithOp

LEMMA PcWritten ==
  ASSUME NEW c, CliShape(c), NEW p
  PROVE  LET d == WithPc(c, p)
         IN  CliShape(d) /\ d.pc = p /\ d.op = c.op /\ d.name = c.name /\ d.at = c.at
BY DEF CliShape, WithPc

LEMMA RestartWritten ==
  ASSUME NEW c, CliShape(c), NEW o
  PROVE  LET d == Restarted(c, o)
         IN  CliShape(d) /\ d.pc = "first" /\ d.op = o
<1>1. 0 \in Time
  BY RecordsAssumption DEF Time
<1> QED
  BY <1>1 DEF CliShape, Restarted

LEMMA EndsMoves ==
  ASSUME Types, NEW a, Ends(a), a \notin {"flag", "content", "unstarted"},
         a = "ok" => cli.op \notin {"output", "history"}
  PROVE  CliShape(cli') /\ CliMoves
<1>1. CliShape(cli) /\ 0 \in Time
  BY RecordsAssumption DEF Types, Time
<1>a. cli' = WithAt(cli, a, 0)
  BY DEF Ends, WithAt
<1>2. CliShape(cli') /\ cli'.pc = a /\ cli'.at = 0 /\ cli'.op = cli.op /\ cli'.name = cli.name
  BY <1>1, <1>a, AtWritten
<1> QED
  BY <1>2 DEF CliMoves

LEMMA ResolveMoves ==
  ASSUME Types, NEW then \in {"first", "second", "latest"}, Resolve(then)
  PROVE  CliShape(cli') /\ CliMoves
<1>1. CASE \E a \in {"not_found", "storage", "ambiguous"} : Ends(a)
  <2>1. PICK a : Ends(a) /\ a \in {"not_found", "storage", "ambiguous"}
    BY <1>1
  <2> QED
    BY <2>1, EndsMoves
<1>2. CASE \E j \in FirstTwo(Matches(cli.name, Visible)) : cli' = [cli EXCEPT !.pc = then, !.id = j]
  <2>1. PICK j \in JobIds : cli' = WithId(cli, then, j)
    BY <1>2 DEF FirstTwo, Matches, Visible, JobRows, WithId
  <2>2. CliShape(cli)
    BY DEF Types
  <2>3. /\ CliShape(cli') /\ cli'.pc = then /\ cli'.op = cli.op /\ cli'.name = cli.name
        /\ cli'.at = cli.at
    BY <2>1, <2>2, IdWritten
  <2> QED
    BY <2>3 DEF CliMoves
<1> QED
  BY <1>1, <1>2 DEF Resolve

LEMMA MultipleOf ==
  ASSUME NEW T \in Nat \ {0}, NEW m \in Nat
  PROVE  (T * m) % T = 0
OBVIOUS

(* The order of the texts is that of the instants up to a second.          *)
LEMMA TextRankOrder ==
  ASSUME NEW a \in Nat, NEW b \in Nat, TextRank(a) >= TextRank(b)
  PROVE  a >= b \/ a \div TicksPerSecond = b \div TicksPerSecond
<1> DEFINE T == TicksPerSecond
<1>0. T \in Nat \ {0}
  BY RecordsAssumption
<1> SUFFICES ASSUME a < b
             PROVE  a \div T = b \div T
  OBVIOUS
<1>1. TextRank(a) \in {a, a + T} /\ TextRank(b) \in {b, b + T}
  BY DEF TextRank
<1>2. TextRank(b) = b /\ TextRank(a) = a + T /\ b <= a + T
  BY <1>0, <1>1
<1>3. a % T = 0 /\ b % T # 0
  BY <1>0, <1>2 DEF TextRank
<1>4. PICK k \in Nat : k = a \div T
  BY <1>0
<1>5. a = T * k
  BY <1>0, <1>3, <1>4
<1>6. b # a + T
  <2> SUFFICES ASSUME b = a + T
               PROVE  FALSE
    OBVIOUS
  <2>1. PICK m \in Nat : m = k + 1
    OBVIOUS
  <2>2. b = T * m
    BY <2>1, <1>0, <1>5
  <2>3. b % T = 0
    BY <2>2, <1>0, MultipleOf
  <2> QED
    BY <2>3, <1>3
<1>7. b = T * k + (b - a) /\ b - a \in 0 .. (T - 1)
  BY <1>0, <1>2, <1>5, <1>6
<1>8. b \div T = k
  BY <1>0, <1>7
<1> QED
  BY <1>4, <1>8

LEMMA ShowMoves ==
  ASSUME Types, NEW ids \in SUBSET RunIds, NEW limit, ShowRuns(ids, limit), cli.op # "output"
  PROVE  CliShape(cli') /\ CliMoves
<1>1. CASE \E a \in {"usage", "storage"} : Ends(a)
  <2>1. PICK a : Ends(a) /\ a \in {"usage", "storage"}
    BY <1>1
  <2> QED
    BY <2>1, EndsMoves
<1>2. CASE \E found \in list_runs(ids, limit) :
             cli' = [cli EXCEPT !.pc = "ok", !.at = 0, !.got = [i \in DOMAIN found |-> RunView(found[i])]]
  <2>1. PICK found \in list_runs(ids, limit) :
          cli' = [cli EXCEPT !.pc = "ok", !.at = 0, !.got = [i \in DOMAIN found |-> RunView(found[i])]]
    BY <1>2
  <2> DEFINE g == [i \in DOMAIN found |-> RunView(found[i])]
  <2>2. CliShape(cli) /\ cli' = WithAnswer(cli, g)
    BY <2>1 DEF Types, WithAnswer
  <2>a. /\ \A i \in DOMAIN found : found[i] \in RunIds
        /\ \A i, k \in DOMAIN found : i < k => Newer(found[i], found[k])
    BY <2>1 DEF list_runs, Listing
  <2>3. DOMAIN g = DOMAIN found /\ \A i \in DOMAIN found : g[i].row = runs[found[i]]
    BY DEF RunView
  <2> HIDE DEF g
  <2>4. /\ CliShape(cli') /\ cli'.pc = "ok" /\ cli'.got = g /\ cli'.op = cli.op
        /\ cli'.name = cli.name /\ cli'.at = 0
    BY <2>2, AnswerWritten
  <2>b. \A r \in RunIds : runs[r].created \in Nat
    <3>1. \A r \in RunIds : RunShape(runs[r])
      BY DEF Types, Row
    <3> QED
      BY <3>1, RecordsAssumption DEF RunShape, Time
  <2>5. ASSUME NEW i \in DOMAIN found, NEW k \in DOMAIN found, i < k
        PROVE  \/ g[i].row.created >= g[k].row.created
               \/ g[i].row.created \div TicksPerSecond = g[k].row.created \div TicksPerSecond
    <3>1. PICK a \in Nat, b \in Nat : a = runs[found[i]].created /\ b = runs[found[k]].created
      BY <2>a, <2>b
    <3>2. TextRank(a) >= TextRank(b)
      <4>1. Newer(found[i], found[k])
        BY <2>a, <2>5
      <4>2. TextRank(a) > TextRank(b) \/ TextRank(a) = TextRank(b)
        BY <4>1, <3>1 DEF Newer
      <4> QED
        BY <4>2, RecordsAssumption DEF TextRank
    <3>3. a >= b \/ a \div TicksPerSecond = b \div TicksPerSecond
      BY <3>2, TextRankOrder
    <3> QED
      BY <2>3, <3>1, <3>3
  <2>6. NewestGot'
    BY <2>3, <2>4, <2>5 DEF NewestGot
  <2> QED
    BY <2>4, <2>6 DEF CliMoves
<1> QED
  BY <1>1, <1>2 DEF ShowRuns

LEMMA BeginMoves ==
  ASSUME Types, Begin
  PROVE  CliShape(cli') /\ CliMoves
<1>1. PICK i, c : i = cli.done + 1 /\ c = load.commands[i]
  OBVIOUS
<1>2. cli.done \in Nat /\ now \in Time /\ 0 \in Time /\ load.commands \in Seq(Command)
  BY RecordsAssumption DEF Types, CliShape, Time
<1>3. i \in Nat /\ i \in DOMAIN load.commands
  BY <1>1, <1>2 DEF Begin
<1>4. PICK a \in {0, now} : a = IF c.op \in {"run", "run_yes"} THEN now ELSE 0
  OBVIOUS
<1>5. cli' = [Idle EXCEPT !.pc = "first", !.op = c.op, !.name = c.name, !.state = c.state,
                          !.limit = c.limit, !.done = i, !.at = a]
  BY <1>1, <1>4 DEF Begin
<1>6. cli' = [pc |-> "first", op |-> c.op, name |-> c.name, state |-> c.state, limit |-> c.limit,
              at |-> a, done |-> i, id |-> NoId, run |-> NoId, rev |-> 0, row |-> NoRunRow, truncated |-> FALSE,
              file |-> "none", got |-> <<>>]
  BY <1>5 DEF Idle
<1>7. CliShape(cli')
  BY <1>2, <1>3, <1>4, <1>6 DEF CliShape
<1>8. cli'.pc = "first"
  BY <1>6
<1> QED
  BY <1>7, <1>8 DEF CliMoves

LEMMA ListMoves ==
  ASSUME Types, List
  PROVE  CliShape(cli') /\ CliMoves
<1>0. CliShape(cli) /\ cli.op = "list"
  BY DEF Types, List, Reads
<1>1. CASE \E a \in {"usage", "storage"} : Ends(a)
  <2>1. PICK a : Ends(a) /\ a \in {"usage", "storage"}
    BY <1>1
  <2> QED
    BY <2>1, EndsMoves
<1>2. CASE \E g : cli' = WithGot(cli, "ok", g)
  <2>1. PICK g : cli' = WithGot(cli, "ok", g)
    BY <1>2
  <2>2. CliShape(cli') /\ cli'.pc = "ok" /\ cli'.op = cli.op /\ cli'.name = cli.name /\ cli'.at = cli.at
    BY <1>0, <2>1, GotWritten
  <2> QED
    BY <1>0, <2>2 DEF CliMoves
<1> QED
  BY <1>1, <1>2 DEF List, WithGot

LEMMA PsMoves ==
  ASSUME Types, Ps
  PROVE  CliShape(cli') /\ CliMoves
<1>0. CliShape(cli) /\ cli.op = "ps"
  BY DEF Types, Ps, Reads
<1>1. CASE Ends("storage")
  BY <1>1, EndsMoves
<1>2. CASE \E p \in {"ok", "second"} : \E g : cli' = WithGot(cli, p, g)
  <2>1. PICK p, g : cli' = WithGot(cli, p, g) /\ p \in {"ok", "second"}
    BY <1>2
  <2>2. CliShape(cli') /\ cli'.pc = p /\ cli'.op = cli.op /\ cli'.name = cli.name /\ cli'.at = cli.at
    BY <1>0, <2>1, GotWritten
  <2> QED
    BY <1>0, <2>1, <2>2 DEF CliMoves
<1> QED
  BY <1>1, <1>2 DEF Ps, WithGot

LEMMA OverviewMoves ==
  ASSUME Types, Show \/ History
  PROVE  CliShape(cli') /\ CliMoves
<1>0. cli.op # "output"
  BY DEF Show, History, Reads
<1>1. CASE Resolve("second")
  BY <1>1, ResolveMoves
<1>2. CASE \E ids \in SUBSET RunIds : \E limit : ShowRuns(ids, limit)
  <2>1. PICK ids \in SUBSET RunIds : \E limit : ShowRuns(ids, limit)
    BY <1>2
  <2>2. PICK limit : ShowRuns(ids, limit)
    BY <2>1
  <2> QED
    BY <1>0, <2>2, ShowMoves
<1>3. RunRows \in SUBSET RunIds /\ RunsOf(cli.id) \in SUBSET RunIds
  BY DEF RunRows, RunsOf
<1>4. \/ Resolve("second")
      \/ \E ids \in {RunRows, RunsOf(cli.id)} : \E limit : ShowRuns(ids, limit)
  BY DEF Show, History
<1> QED
  BY <1>1, <1>2, <1>3, <1>4

LEMMA FoundMoves ==
  ASSUME Types, NEW r \in RunRows, Found(r), cli.op = "output"
  PROVE  CliShape(cli') /\ CliMoves
<1>1. PICK p : p = IF runs[r].started # NoTime THEN "flag"
                   ELSE IF runs[r].state \in RunTerminal THEN "ok" ELSE "not_captured"
  OBVIOUS
<1>2. cli' = WithRow(cli, r, runs[r], p)
  BY <1>1 DEF Found, WithRow
<1>3. CliShape(cli) /\ r \in RunIds
  BY DEF Types, RunRows
<1>4. /\ CliShape(cli') /\ cli'.pc = p /\ cli'.id = r /\ cli'.row = runs[r] /\ cli'.op = cli.op
      /\ cli'.name = cli.name /\ cli'.at = cli.at
  BY <1>2, <1>3, RowWritten
<1>5. p # "first" /\ p # "content" /\ (p = "flag" \/ runs[r].started = NoTime)
  BY <1>1
<1>6. cli'.pc # "unstarted"
  BY <1>1, <1>4
<1>7. /\ cli'.id \in RunRows /\ cli'.row = runs[cli'.id]
      /\ cli'.pc = "flag" \/ cli'.row.started = NoTime
  BY <1>4, <1>5
<1>8. cli'.op # "history"
  BY <1>4
<1> QED
  BY <1>4, <1>6, <1>7, <1>8 DEF CliMoves

LEMMA FindMoves ==
  ASSUME Types, FindRun \/ LatestRun
  PROVE  CliShape(cli') /\ CliMoves
<1>0. cli.op = "output" /\ CliShape(cli)
  BY DEF FindRun, LatestRun, Reads, Types
<1>1. CASE \E a \in {"not_found", "storage", "ambiguous", "no_runs"} : Ends(a)
  <2>1. PICK a : Ends(a) /\ a \in {"not_found", "storage", "ambiguous", "no_runs"}
    BY <1>1
  <2> QED
    BY <2>1, EndsMoves
<1>2. CASE cli' = [cli EXCEPT !.pc = "job"]
  <2>1. cli' = WithPc(cli, "job")
    BY <1>2 DEF WithPc
  <2>2. CliShape(cli') /\ cli'.pc = "job" /\ cli'.op = cli.op /\ cli'.name = cli.name /\ cli'.at = cli.at
    BY <1>0, <2>1, PcWritten
  <2> QED
    BY <1>0, <2>2 DEF CliMoves
<1>3. CASE \E r \in RunRows : Found(r)
  BY <1>0, <1>3, FoundMoves
<1>4. FirstTwo(Matches(cli.name, RunRows)) \subseteq RunRows /\ RunsOf(cli.id) \subseteq RunRows
  BY DEF FirstTwo, Matches, RunsOf
<1>5. CASE FindRun
  BY <1>1, <1>2, <1>3, <1>4, <1>5 DEF FindRun
<1>6. CASE LatestRun
  BY <1>1, <1>2, <1>3, <1>4, <1>6 DEF LatestRun
<1> QED
  BY <1>5, <1>6

LEMMA ReadMoves ==
  ASSUME Types, ReadFlag \/ ReadStream
  PROVE  CliShape(cli') /\ CliMoves
<1>0. CliShape(cli) /\ cli.op = "output"
  BY DEF Types, ReadFlag, ReadStream, Reads
<1>1. CASE \E a \in {"missing", "storage"} : Ends(a)
  <2>1. PICK a : Ends(a) /\ a \in {"missing", "storage"}
    BY <1>1
  <2> QED
    BY <2>1, EndsMoves
<1>2. CASE /\ cli.pc = "flag" /\ cli.id \in RunIds
           /\ cli' = [cli EXCEPT !.pc = "content", !.truncated = logs[cli.id].truncated]
  <2>1. PICK b \in BOOLEAN : b <=> logs[cli.id].truncated
    OBVIOUS
  <2>a. logs[cli.id].truncated \in BOOLEAN
    BY <1>2 DEF Types, Log
  <2>b. b = logs[cli.id].truncated
    BY <2>1, <2>a
  <2>2. cli' = WithFlag(cli, b)
    BY <1>2, <2>b DEF WithFlag
  <2>3. /\ CliShape(cli') /\ cli'.pc = "content" /\ (cli'.truncated <=> b) /\ cli'.id = cli.id
        /\ cli'.row = cli.row /\ cli'.op = cli.op /\ cli'.name = cli.name /\ cli'.at = cli.at
    BY <1>0, <2>2, TruncatedWritten
  <2> QED
    BY <1>0, <1>2, <2>1, <2>3 DEF CliMoves
<1>3. CASE cli.pc = "content" /\ cli' = [cli EXCEPT !.pc = "ok", !.file = logs[cli.id].file]
  <2>1. PICK f : f = logs[cli.id].file
    OBVIOUS
  <2>2. cli' = WithFile(cli, f)
    BY <1>3, <2>1 DEF WithFile
  <2>3. /\ CliShape(cli') /\ cli'.pc = "ok" /\ cli'.file = f /\ (cli'.truncated <=> cli.truncated)
        /\ cli'.id = cli.id /\ cli'.row = cli.row /\ cli'.op = cli.op /\ cli'.name = cli.name
        /\ cli'.at = cli.at
    BY <1>0, <2>2, ContentWritten
  <2> QED
    BY <1>0, <1>3, <2>1, <2>3 DEF CliMoves
<1>4. CASE ReadFlag
  BY <1>1, <1>2, <1>4 DEF ReadFlag, Reads, RunRows
<1>5. CASE ReadStream
  BY <1>1, <1>3, <1>5 DEF ReadStream, Reads
<1> QED
  BY <1>4, <1>5

(* No row is written.                                                      *)
LEMMA RecordsStay ==
  ASSUME Types, UNCHANGED recordVars
  PROVE  RowTypes /\ Moves
<1>1. UNCHANGED <<load, now, faults, jobs, runs, logs, mons, sup>>
  BY DEF recordVars
<1>2. RowTypes
  BY <1>1 DEF RowTypes, Types
<1> QED
  BY <1>1, <1>2, RunsStay, MonsStay, JobsStay DEF Moves

LEMMA ChangeMoves ==
  ASSUME Types, Change
  PROVE  RowTypes /\ Moves /\ CliShape(cli') /\ CliMoves
<1>1. cli.at \in Time /\ cli.op \notin {"output", "history"}
  BY DEF Change, Types, CliShape, Changes
<1>2. PICK i \in JobIds :
        \/ Rerun(i)
        \/ RemoveJob(i)
        \/ Ends("conflict") /\ UNCHANGED recordVars
  BY DEF Change, Visible, JobRows
<1>3. ASSUME Ends("ok") PROVE CliShape(cli') /\ CliMoves
  BY <1>1, <1>3, EndsMoves
<1>4. CASE Rerun(i)
  <2>1. RowTypes /\ Moves
    BY <1>1, <1>4, RerunMoves DEF Rerun
  <2> QED
    BY <1>3, <1>4, <2>1 DEF Rerun
<1>5. CASE RemoveJob(i)
  <2>1. RowTypes /\ Moves
    BY <1>5, HideMoves DEF RemoveJob
  <2> QED
    BY <1>3, <1>5, <2>1 DEF RemoveJob
<1>6. CASE Ends("conflict") /\ UNCHANGED recordVars
  BY <1>6, RecordsStay, EndsMoves
<1> QED
  BY <1>2, <1>4, <1>5, <1>6

LEMMA RefuseMoves ==
  ASSUME Types, Refuse
  PROVE  CliShape(cli') /\ CliMoves
BY ResolveMoves DEF Refuse

-------------------------------------------------------------------------------
(* A cancel tells nothing of an output or a listing.                       *)
LEMMA NoReport ==
  ASSUME CliShape(cli'), cli'.op \in {"cancel", "rm_cancel", "rm"}, cli'.pc # "unstarted"
  PROVE  CliShape(cli') /\ CliMoves
BY DEF CliMoves

LEMMA GrantMoves ==
  ASSUME Types, cli.op \in {"cancel", "rm_cancel"}, CancelOk
  PROVE  CliShape(cli') /\ CliMoves
<1>1. CASE Ends("ok")
  BY <1>1, EndsMoves
<1>2. CASE cli' = [cli EXCEPT !.op = "rm", !.pc = "first", !.at = 0]
  <2>1. CliShape(cli) /\ cli' = Restarted(cli, "rm")
    BY <1>2 DEF Types, Restarted
  <2>2. CliShape(cli') /\ cli'.pc = "first" /\ cli'.op = "rm"
    BY <2>1, RestartWritten
  <2> QED
    BY <2>2, NoReport
<1> QED
  BY <1>1, <1>2 DEF CancelOk

LEMMA PcGoesOn ==
  ASSUME Types, cli.op \in {"cancel", "rm_cancel"}, NEW p, p # "unstarted",
         cli' = [cli EXCEPT !.pc = p]
  PROVE  CliShape(cli') /\ CliMoves
<1>1. CliShape(cli) /\ cli' = WithPc(cli, p)
  BY DEF Types, WithPc
<1>2. CliShape(cli') /\ cli'.pc = p /\ cli'.op = cli.op
  BY <1>1, PcWritten
<1> QED
  BY <1>2, NoReport

LEMMA ResolveCancelMoves ==
  ASSUME Types, CancelResolve
  PROVE  CliShape(cli') /\ CliMoves
<1>1. CliShape(cli) /\ cli.op \in {"cancel", "rm_cancel"}
  BY DEF Types, CancelResolve, CancelStarts
<1>2. PICK j \in JobIds :
        \/ cli' = [cli EXCEPT !.op = "rm"] /\ cli.pc = "first"
        \/ cli' = [cli EXCEPT !.pc = "cancel"]
        \/ CancelOk
        \/ Ends("conflict")
        \/ cli' = [cli EXCEPT !.pc = "active", !.id = j]
  BY DEF CancelResolve, Visible, JobRows
<1>3. CASE cli' = [cli EXCEPT !.op = "rm"] /\ cli.pc = "first"
  <2>1. cli' = WithOp(cli, "rm")
    BY <1>3 DEF WithOp
  <2>2. CliShape(cli') /\ cli'.pc = "first" /\ cli'.op = "rm"
    BY <1>1, <1>3, <2>1, OpWritten
  <2> QED
    BY <2>2, NoReport
<1>4. CASE cli' = [cli EXCEPT !.pc = "cancel"]
  BY <1>1, <1>4, PcGoesOn
<1>5. CASE Ends("conflict")
  BY <1>5, EndsMoves
<1>6. CASE cli' = [cli EXCEPT !.pc = "active", !.id = j]
  <2>1. cli' = WithId(cli, "active", j)
    BY <1>6 DEF WithId
  <2>2. CliShape(cli') /\ cli'.pc = "active" /\ cli'.op = cli.op
    BY <1>1, <2>1, IdWritten
  <2> QED
    BY <1>1, <2>2, NoReport
<1> QED
  BY <1>1, <1>2, <1>3, <1>4, <1>5, <1>6, GrantMoves

LEMMA ActiveMoves ==
  ASSUME Types, LatestActiveRun
  PROVE  CliShape(cli') /\ CliMoves
<1>1. CliShape(cli) /\ cli.op \in {"cancel", "rm_cancel"}
  BY DEF Types, LatestActiveRun, Cancelling
<1>2. CASE cli' = [cli EXCEPT !.pc = "request"]
  BY <1>1, <1>2, PcGoesOn
<1>3. CASE Ends("storage")
  BY <1>3, EndsMoves
<1>4. CASE \E r \in RunIds : cli' = [cli EXCEPT !.pc = "request", !.run = r]
  <2>1. PICK r \in RunIds : cli' = WithRun(cli, "request", r)
    BY <1>4 DEF WithRun
  <2>2. CliShape(cli') /\ cli'.pc = "request" /\ cli'.op = cli.op
    BY <1>1, <2>1 DEF CliShape, WithRun
  <2> QED
    BY <1>1, <2>2, NoReport
<1>5. \/ cli' = [cli EXCEPT !.pc = "request"]
      \/ Ends("storage")
      \/ \E r \in RunIds : cli' = [cli EXCEPT !.pc = "request", !.run = r]
  BY DEF LatestActiveRun, ActiveRuns, RunRows
<1> QED
  BY <1>2, <1>3, <1>4, <1>5

LEMMA AwaitMoves ==
  ASSUME Types, AwaitRun
  PROVE  CliShape(cli') /\ CliMoves
<1>1. CliShape(cli) /\ cli.op \in {"cancel", "rm_cancel"}
  BY DEF Types, AwaitRun, Cancelling
<1>2. CASE Ends("storage") \/ Ends("conflict")
  BY <1>2, EndsMoves
<1>3. CASE cli' = [cli EXCEPT !.pc = "finish", !.row = runs[cli.run]]
  <2>1. PICK x : cli' = WithEnded(cli, "finish", x)
    BY <1>3 DEF WithEnded
  <2>2. CliShape(cli') /\ cli'.pc = "finish" /\ cli'.op = cli.op
    BY <1>1, <2>1 DEF CliShape, WithEnded
  <2> QED
    BY <1>1, <2>2, NoReport
<1> QED
  BY <1>2, <1>3 DEF AwaitRun

LEMMA CancelReads ==
  ASSUME Types, CancelResolve \/ LatestActiveRun \/ AwaitRun
  PROVE  RowTypes /\ Moves /\ CliShape(cli') /\ CliMoves
<1>1. UNCHANGED recordVars
  BY DEF CancelResolve, LatestActiveRun, AwaitRun
<1> QED
  BY <1>1, RecordsStay, ResolveCancelMoves, ActiveMoves, AwaitMoves

LEMMA RequestMoves ==
  ASSUME Types, RequestCancel
  PROVE  RowTypes /\ Moves /\ CliShape(cli') /\ CliMoves
<1>1. CliShape(cli) /\ cli.op \in {"cancel", "rm_cancel"} /\ now \in Time
  BY DEF Types, RequestCancel, Cancelling
<1>2. CASE /\ MoveJob(cli.id, "cancel_requested", now)
           /\ cli' = [cli EXCEPT !.pc = IF cli.run = NoId THEN "end" ELSE "commit",
                                 !.at = now, !.rev = jobs[cli.id].rev + 1]
  <2>0. PICK n, p : /\ n = jobs[cli.id].rev + 1
                    /\ p = IF cli.run = NoId THEN "end" ELSE "commit"
    OBVIOUS
  <2>1. p # "unstarted" /\ cli' = WithRev(cli, p, now, n)
    BY <1>2, <2>0 DEF WithRev
  <2>2. CliShape(cli') /\ cli'.pc = p /\ cli'.op = cli.op
    BY <1>1, <2>1 DEF CliShape, WithRev
  <2>3. CliShape(cli') /\ CliMoves
    BY <1>1, <2>1, <2>2, NoReport
  <2> QED
    BY <1>1, <1>2, <2>3, TransitionMoves
<1>3. CASE UNCHANGED recordVars /\ (CancelOk \/ \E a \in {"not_found", "storage", "conflict"} : Ends(a))
  <2>1. CASE \E a \in {"not_found", "storage", "conflict"} : Ends(a)
    <3>1. PICK a : Ends(a) /\ a \in {"not_found", "storage", "conflict"}
      BY <2>1
    <3> QED
      BY <1>3, <3>1, EndsMoves, RecordsStay
  <2> QED
    BY <1>1, <1>3, <2>1, GrantMoves, RecordsStay
<1> QED
  BY <1>2, <1>3 DEF RequestCancel

LEMMA EndCancelledMoves ==
  ASSUME Types, EndCancelled
  PROVE  RowTypes /\ Moves /\ CliShape(cli') /\ CliMoves
<1>1. cli.at \in Time /\ cli.op \in {"cancel", "rm_cancel"}
  BY DEF Types, CliShape, EndCancelled, Cancelling
<1>2. CASE MoveJob(cli.id, "cancelled", cli.at) /\ CancelOk
  BY <1>1, <1>2, TransitionMoves, GrantMoves
<1>3. CASE Ends("storage") /\ UNCHANGED recordVars
  BY <1>3, EndsMoves, RecordsStay
<1> QED
  BY <1>2, <1>3 DEF EndCancelled

LEMMA ClaimedMoves ==
  ASSUME Types, CancelClaimed
  PROVE  RowTypes /\ Moves /\ CliShape(cli') /\ CliMoves
<1>1. CliShape(cli) /\ cli.op \in {"cancel", "rm_cancel"} /\ cli.pc = "commit"
  BY DEF Types, CancelClaimed, Cancelling
<1>2. ASSUME Ends("storage") \/ cli' = [cli EXCEPT !.pc = "wait"]
      PROVE  CliShape(cli') /\ CliMoves
  BY <1>1, <1>2, EndsMoves, PcGoesOn
<1>3. CASE CommitCancellation(cli.run)
  <2>1. /\ RowTypes /\ Moves
        /\ cli.run \in RunIds /\ runs[cli.run].state # "absent"
        /\ runs'[cli.run].state = "cancel_requested" /\ runs'[cli.run].started = runs[cli.run].started
    BY <1>3, CommitMoves
  <2>2. CASE runs[cli.run].started = NoTime /\ cli' = [cli EXCEPT !.pc = "unstarted"]
    <3>1. cli' = WithPc(cli, "unstarted")
      BY <2>2 DEF WithPc
    <3>2. CliShape(cli') /\ cli'.pc = "unstarted" /\ cli'.op = cli.op /\ cli'.run = cli.run
      BY <1>1, <3>1 DEF CliShape, WithPc
    <3>3. cli'.run \in RunIds /\ runs[cli'.run].state # "absent"
          /\ runs'[cli'.run].state = "cancel_requested" /\ runs'[cli'.run].started = NoTime
      BY <2>1, <2>2, <3>2
    <3>4. CliMoves
      BY <1>1, <3>2, <3>3 DEF CliMoves
    <3> QED
      BY <2>1, <3>2, <3>4
  <2>3. CASE cli' = [cli EXCEPT !.pc = "wait"] \/ Ends("storage")
    BY <1>2, <2>1, <2>3
  <2>4. \/ runs[cli.run].started = NoTime /\ cli' = [cli EXCEPT !.pc = "unstarted"]
        \/ cli' = [cli EXCEPT !.pc = "wait"] \/ Ends("storage")
    <3>1. cli.run \in ActiveRuns /\ RunReadable(cli.run)
      BY <1>3 DEF CommitCancellation
    <3> QED
      BY <3>1 DEF CancelClaimed
  <2> QED
    BY <2>2, <2>3, <2>4
<1>4. CASE UNCHANGED recordVars /\ (Ends("storage") \/ cli' = [cli EXCEPT !.pc = "wait"])
  BY <1>2, <1>4, RecordsStay
<1> QED
  BY <1>3, <1>4 DEF CancelClaimed

LEMMA UnstartedMoves ==
  ASSUME Types, EndUnstarted
  PROVE  RowTypes /\ Moves /\ CliShape(cli') /\ CliMoves
<1>1. cli.op \in {"cancel", "rm_cancel"} /\ cli.pc = "unstarted"
  BY DEF EndUnstarted, Cancelling
<1>2. CASE RecordCancelled(cli.run) /\ cli' = [cli EXCEPT !.pc = "wait"]
  BY <1>1, <1>2, CancelledMoves, PcGoesOn
<1>3. CASE Ends("storage") /\ UNCHANGED recordVars
  BY <1>3, EndsMoves, RecordsStay
<1> QED
  BY <1>2, <1>3 DEF EndUnstarted

LEMMA FinishCancelMoves ==
  ASSUME Types, FinishCancel
  PROVE  RowTypes /\ Moves /\ CliShape(cli') /\ CliMoves
<1>1. cli.op \in {"cancel", "rm_cancel"} /\ now \in Time
  BY DEF Types, FinishCancel, Cancelling
<1>2. CASE MoveJob(cli.id, cli.row.state, now) /\ CancelOk
  BY <1>1, <1>2, TransitionMoves, GrantMoves
<1>3. CASE UNCHANGED recordVars /\ (CancelOk \/ \E a \in {"not_found", "storage", "conflict"} : Ends(a))
  <2>1. CASE \E a \in {"not_found", "storage", "conflict"} : Ends(a)
    <3>1. PICK a : Ends(a) /\ a \in {"not_found", "storage", "conflict"}
      BY <2>1
    <3> QED
      BY <1>3, <3>1, EndsMoves, RecordsStay
  <2> QED
    BY <1>1, <1>3, <2>1, GrantMoves, RecordsStay
<1> QED
  BY <1>2, <1>3 DEF FinishCancel

LEMMA OutputMoves ==
  ASSUME Types, Output
  PROVE  CliShape(cli') /\ CliMoves
<1>1. CASE Resolve("latest")
  BY <1>1, ResolveMoves
<1> QED
  BY <1>1, FindMoves, ReadMoves DEF Output

LEMMA CliStays ==
  ASSUME Types, UNCHANGED cli
  PROVE  CliShape(cli') /\ CliMoves
BY DEF Types, CliMoves

(* Every step is one of the moves.                                         *)
LEMMA StepsMove ==
  ASSUME Types, [Next]_vars
  PROVE  RowTypes /\ Moves /\ CliShape(cli') /\ CliMoves
<1>1. CASE UNCHANGED vars
  BY <1>1, RecordsStay, CliStays DEF vars
<1>2. CASE RecordsStep /\ UNCHANGED cli
  BY <1>2, WritersMove, CliStays
<1>3. CASE Change
  BY <1>3, ChangeMoves
<1>4. CASE Begin
  BY <1>4, BeginMoves, RecordsStay DEF Begin
<1>5. CASE List
  BY <1>5, ListMoves, RecordsStay DEF List, Reads
<1>6. CASE Show \/ History
  BY <1>6, OverviewMoves, RecordsStay DEF Show, History, Reads
<1>7. CASE Ps
  BY <1>7, PsMoves, RecordsStay DEF Ps, Reads
<1>8. CASE Output
  <2>1. UNCHANGED recordVars
    BY <1>8 DEF Output, FindRun, LatestRun, ReadFlag, ReadStream, Reads
  <2> QED
    BY <1>8, <2>1, OutputMoves, RecordsStay
<1>9. CASE Refuse
  BY <1>9, RefuseMoves, RecordsStay DEF Refuse
<1>10. CASE Cancel
  BY <1>10, CancelReads, RequestMoves, EndCancelledMoves, ClaimedMoves, UnstartedMoves,
     FinishCancelMoves DEF Cancel
<1> QED
  BY <1>1, <1>2, <1>3, <1>4, <1>5, <1>6, <1>7, <1>8, <1>9, <1>10 DEF Next, Step

LEMMA TypesKept ==
  ASSUME Types, [Next]_vars
  PROVE  Types'
<1>1. RowTypes /\ CliShape(cli')
  BY StepsMove
<1> QED
  BY <1>1 DEF RowTypes, Types

LEMMA TypesFirst == Init => Types
<1> SUFFICES ASSUME Init PROVE Types
  OBVIOUS
<1>1. /\ load \in Loads /\ now \in Time /\ faults \in [steps : Nat, deaths : Nat, starts : Nat]
      /\ sup \in [pc : {"starting", "serving", "down"}, wall : Time]
  BY RecordsAssumption DEF Init, RecordsInit, Time
<1>2. NoJobRow \in JobRow
  BY RecordsAssumption DEF NoJobRow, JobRow, JobRowState, Time
<1>3. jobs \in [JobIds -> JobRow]
  BY <1>2 DEF Init, RecordsInit
<1>4. runs = [r \in RunIds |-> runs[r]] /\ \A r \in RunIds : Row(runs[r])
  BY NoRow DEF Init, RecordsInit
<1>5. logs \in [RunIds -> Log] /\ mons \in [RunIds -> MonitorRow]
  BY DEF Init, RecordsInit, Log, MonitorRow, Monitor
<1>6. CliShape(cli)
  BY RecordsAssumption DEF Init, CliShape, Idle, Time
<1> QED
  BY <1>1, <1>3, <1>4, <1>5, <1>6 DEF Types

LEMMA TypesHold == Spec => []Types
<1>1. Types /\ [Next]_vars => Types'
  BY TypesKept
<1> QED
  BY <1>1, TypesFirst, PTL DEF Spec

(* The newest run is listed first: the listing compares texts, whose order *)
(* is that of the instants but within a second.                            *)
THEOREM NewestFirstHolds == Spec => []NewestFirst
<1>1. Init => NewestFirst
  BY DEF Init, Idle, NewestFirst
<1>2. Types /\ NewestFirst /\ [Next]_vars => NewestFirst'
  <2> SUFFICES ASSUME Types, NewestFirst, [Next]_vars
               PROVE  NewestFirst'
    OBVIOUS
  <2>1. cli'.op = "history" /\ cli'.pc = "ok" => cli' = cli \/ NewestGot'
    BY StepsMove DEF CliMoves
  <2>2. CASE cli' = cli
    BY <2>2 DEF NewestFirst
  <2>3. CASE NewestGot'
    BY <2>3 DEF NewestGot, NewestFirst
  <2>4. CASE ~(cli'.op = "history" /\ cli'.pc = "ok")
    BY <2>4 DEF NewestFirst
  <2> QED
    BY <2>1, <2>2, <2>3, <2>4
<1> QED
  BY <1>1, <1>2, TypesHold, PTL DEF Spec

-------------------------------------------------------------------------------
(* The outcomes only a command that ran to its end, or was stopped, has.   *)
Own == {"exit_zero", "exit_nonzero", "cancelled"}

Whole(r) == logs[r].file = "whole" \/ (logs[r].file = "cut" /\ logs[r].truncated)

(* The monitor of the run writes its log no more.                          *)
Settled(r) == mons[r].pc \in {"recorded", "gone"} /\ Whole(r)

OwnRow(x) == x.started # NoTime /\ x.outcome \in Own

(* The log is whole when the monitor has seen its end, its truncation is   *)
(* recorded before the outcome, and what a command has read of it is what  *)
(* it still is.                                                            *)
Logged(r) ==
  /\ OwnRow(runs[r]) => Settled(r)
  /\ mons[r].pc = "drained" => logs[r].file \in {"whole", "cut", "part"}
  /\ mons[r].pc = "flagged" => Whole(r) \/ logs[r].file = "part"

(* A run whose row is there has had a monitor.                             *)
Watched(r) == runs[r].state # "absent" => mons[r].pc # "none"

(* The run that a canceller found without a command gets none any more.    *)
Committed ==
  cli.pc = "unstarted" =>
    /\ cli.run \in RunIds
    /\ mons[cli.run].pc # "none"
    /\ runs[cli.run].started = NoTime /\ runs[cli.run].state # "starting"

Told ==
  (cli.op = "output" /\ cli.pc \in {"flag", "content", "ok"} /\ OwnRow(cli.row)) =>
    /\ cli.id \in RunIds /\ Settled(cli.id)
    /\ cli.pc \in {"content", "ok"} => (cli.truncated <=> logs[cli.id].truncated)
    /\ cli.pc = "ok" => cli.file = logs[cli.id].file

LEMMA SettledStays ==
  ASSUME NEW r, MonMoves(r), Settled(r)
  PROVE  logs'[r] = logs[r] /\ mons'[r].pc \in {"recorded", "gone"} /\ Settled(r)'
<1>1. mons[r].pc \in {"recorded", "gone"}
  BY DEF Settled
<1>2. logs'[r] = logs[r] /\ mons'[r].pc \in {"recorded", "gone"}
  BY <1>1 DEF MonMoves
<1> QED
  BY <1>2 DEF Settled, Whole

LEMMA WatchedKept ==
  ASSUME NEW r \in RunIds, RunMoves(r), MonMoves(r), Watched(r)
  PROVE  /\ Watched(r)'
         /\ mons[r].pc # "none" => mons'[r].pc # "none"
<1>1. mons[r].pc # "none" => mons'[r].pc # "none"
  BY DEF MonMoves
<1>2. runs'[r].state # "absent" => runs[r].state # "absent" \/ mons'[r].pc # "none"
  BY DEF RunMoves, NoRunRow
<1> QED
  BY <1>1, <1>2 DEF Watched

LEMMA CommittedKept ==
  ASSUME Committed, CliMoves, \A r \in RunIds : RunMoves(r) /\ MonMoves(r) /\ Watched(r)
  PROVE  Committed'
<1> SUFFICES ASSUME cli'.pc = "unstarted"
             PROVE  /\ cli'.run \in RunIds
                    /\ mons'[cli'.run].pc # "none"
                    /\ runs'[cli'.run].started = NoTime /\ runs'[cli'.run].state # "starting"
  BY DEF Committed
<1>1. CASE cli' = cli
  <2>1. PICK r \in RunIds : r = cli.run
    BY <1>1 DEF Committed
  <2>2. mons[r].pc # "none" /\ runs[r].started = NoTime /\ runs[r].state # "starting"
    BY <1>1, <2>1 DEF Committed
  <2>3. mons'[r].pc # "none"
    BY <2>2, WatchedKept
  <2>4. runs'[r].started = NoTime /\ runs'[r].state # "starting"
    BY <2>2 DEF RunMoves, NoRunRow
  <2> QED
    BY <1>1, <2>1, <2>3, <2>4
<1>2. CASE /\ cli'.run \in RunIds /\ runs[cli'.run].state # "absent"
           /\ runs'[cli'.run].state = "cancel_requested" /\ runs'[cli'.run].started = NoTime
  <2>1. mons'[cli'.run].pc # "none"
    BY <1>2, WatchedKept DEF Watched
  <2> QED
    BY <1>2, <2>1
<1> QED
  BY <1>1, <1>2 DEF CliMoves

LEMMA LoggedKept ==
  ASSUME NEW r \in RunIds, RunMoves(r), MonMoves(r), Logged(r), Committed
  PROVE  Logged(r)'
<1>1. ASSUME OwnRow(runs'[r]) PROVE Settled(r)'
  <2>1. runs'[r].started # NoTime /\ runs'[r].outcome \in Own
    BY <1>1 DEF OwnRow
  <2>a. ~(cli.pc = "unstarted" /\ cli.run = r /\ runs'[r].started = runs[r].started)
    BY <2>1 DEF Committed
  <2>2. \/ runs'[r] = runs[r]
        \/ mons[r].pc = "flagged" /\ mons'[r].pc = "recorded" /\ logs[r].file # "part"
    BY <2>1, <2>a DEF RunMoves, NoRunRow, Own
  <2>3. CASE runs'[r] = runs[r]
    BY <1>1, <2>3, SettledStays DEF Logged
  <2>4. CASE mons[r].pc = "flagged" /\ mons'[r].pc = "recorded" /\ logs[r].file # "part"
    <3>1. logs'[r] = logs[r]
      BY <2>4 DEF MonMoves
    <3>2. Whole(r)
      BY <2>4 DEF Logged
    <3> QED
      BY <2>4, <3>1, <3>2 DEF Settled, Whole
  <2> QED
    BY <2>2, <2>3, <2>4
<1>2. mons'[r].pc = "drained" => logs'[r].file \in {"whole", "cut", "part"}
  BY DEF MonMoves, Logged
<1>3. ASSUME mons'[r].pc = "flagged" PROVE Whole(r)' \/ logs'[r].file = "part"
  BY <1>3 DEF MonMoves, Logged, Whole
<1> QED
  BY <1>1, <1>2, <1>3 DEF Logged

LEMMA ToldKept ==
  ASSUME Told, CliMoves, \A r \in RunIds : MonMoves(r) /\ Logged(r), Types
  PROVE  Told'
<1> SUFFICES ASSUME cli'.op = "output", cli'.pc \in {"flag", "content", "ok"}, OwnRow(cli'.row)
             PROVE  /\ cli'.id \in RunIds /\ Settled(cli.id)'
                    /\ cli'.pc \in {"content", "ok"} => (cli'.truncated <=> logs'[cli'.id].truncated)
                    /\ cli'.pc = "ok" => cli'.file = logs'[cli'.id].file
  BY DEF Told
<1>1. ASSUME NEW r \in RunIds, Settled(r), cli'.id = r
      PROVE  logs'[r] = logs[r] /\ Settled(cli.id)'
  <2>1. logs'[r] = logs[r] /\ Settled(r)'
    BY <1>1, SettledStays
  <2> QED
    BY <1>1, <2>1 DEF Settled, Whole
<1>2. CASE cli' = cli
  BY <1>1, <1>2 DEF Told
<1>3. CASE /\ cli'.id \in RunRows /\ cli'.row = runs[cli'.id]
           /\ cli'.pc = "flag" \/ cli'.row.started = NoTime
  <2>1. cli'.pc = "flag" /\ cli'.id \in RunIds
    BY <1>3 DEF OwnRow, RunRows
  <2>2. Settled(cli'.id)
    BY <1>3, <2>1 DEF Logged
  <2> QED
    BY <1>1, <2>1, <2>2
<1>4. CASE /\ cli.op = "output" /\ cli.pc = "flag" /\ cli'.pc = "content"
           /\ cli'.id = cli.id /\ cli'.row = cli.row /\ (cli'.truncated <=> logs[cli.id].truncated)
  <2>1. cli.id \in RunIds /\ Settled(cli.id)
    BY <1>4 DEF Told
  <2> QED
    BY <1>1, <1>4, <2>1
<1>5. CASE /\ cli.op = "output" /\ cli.pc = "content" /\ cli'.pc = "ok"
           /\ cli'.id = cli.id /\ cli'.row = cli.row /\ (cli'.truncated <=> cli.truncated)
           /\ cli'.file = logs[cli.id].file
  <2>1. cli.id \in RunIds /\ Settled(cli.id) /\ (cli.truncated <=> logs[cli.id].truncated)
    BY <1>5 DEF Told
  <2> QED
    BY <1>1, <1>5, <2>1
<1> QED
  BY <1>2, <1>3, <1>4, <1>5 DEF CliMoves

(* atx output prints what a command that ended by itself, or was stopped,  *)
(* has written, or says that it was cut: the outcome is recorded after the *)
(* truncation, which is recorded after the end of the log, a capture that  *)
(* failed is a failure, and a reader takes the row, the truncation and the *)
(* file in this order.                                                     *)
THEOREM OutputIsWholeHolds == Spec => []OutputIsWhole
<1> DEFINE Inv == Told /\ Committed /\ \A r \in RunIds : Logged(r) /\ Watched(r)
<1>1. Init => Inv
  <2> SUFFICES ASSUME Init PROVE Inv
    OBVIOUS
  <2>1. Told /\ Committed
    BY DEF Init, Idle, Told, Committed
  <2>2. ASSUME NEW r \in RunIds PROVE Logged(r) /\ Watched(r)
    <3>1. runs[r] = NoRunRow /\ mons[r].pc = "none"
      BY DEF Init, RecordsInit
    <3> QED
      BY <3>1 DEF Logged, OwnRow, NoRunRow, Watched
  <2> QED
    BY <2>1, <2>2
<1>2. Types /\ Inv /\ [Next]_vars => Inv'
  <2> SUFFICES ASSUME Types, Inv, [Next]_vars PROVE Inv'
    OBVIOUS
  <2>1. CliMoves /\ \A r \in RunIds : RunMoves(r) /\ MonMoves(r)
    BY StepsMove DEF Moves
  <2>2. Told'
    BY <2>1, ToldKept
  <2>3. \A r \in RunIds : Logged(r)' /\ Watched(r)'
    BY <2>1, LoggedKept, WatchedKept
  <2>4. Committed'
    BY <2>1, CommittedKept
  <2> QED
    BY <2>2, <2>3, <2>4
<1>3. Inv => OutputIsWhole
  <2> SUFFICES ASSUME Told PROVE OutputIsWhole
    OBVIOUS
  <2> QED
    BY DEF Told, OutputIsWhole, OwnRow, Own, Settled, Whole
<1> QED
  BY <1>1, <1>2, <1>3, TypesHold, PTL DEF Spec

-------------------------------------------------------------------------------
(* A row that recovery has just written is not old enough to be removed,   *)
(* as the retention is longer than the second the text may be off by.      *)
LEMMA AgedIsOld ==
  ASSUME NEW t \in Time, sup.wall \in Time, NEW keep \in Nat, keep >= TicksPerSecond, Aged(t, keep)
  PROVE  t < sup.wall - keep + TicksPerSecond /\ t # sup.wall
<1>0. t \in Nat /\ sup.wall \in Nat /\ sup.wall >= keep
  BY RecordsAssumption DEF Aged, Time
<1>c. sup.wall - keep \in Nat
  BY <1>0
<1>1. PICK a \in Nat, w \in Nat, c \in Nat :
        a = t /\ w = sup.wall /\ c = sup.wall - keep
  BY <1>0, <1>c
<1>d. TextRank(a) < TextRank(c)
  BY <1>1 DEF Aged
<1>2. TextRank(a) \in {a, a + TicksPerSecond} /\ TextRank(c) \in {c, c + TicksPerSecond}
  BY DEF TextRank
<1>3. a < c + TicksPerSecond
  BY <1>d, <1>2, RecordsAssumption
<1> QED
  BY <1>1, <1>3, RecordsAssumption

LEMMA JobDropped ==
  ASSUME Types, NEW j \in JobIds, ~Kept(j, RecoveredJob(j))
  PROVE  /\ jobs[j].state \in JobTerminal
         /\ jobs[j].updated < sup.wall - JobRetention + TicksPerSecond /\ jobs[j].updated # NoTime
<1>1. /\ jobs[j] \in JobRow /\ jobs[j].updated \in Time /\ sup.wall \in Time
      /\ JobRetention \in Nat /\ JobRetention >= TicksPerSecond
  BY RecordsAssumption DEF Types, JobRow
<1>2. RecoveredJob(j).state \in JobTerminal /\ Aged(RecoveredJob(j).updated, JobRetention)
  BY DEF Kept
<1>3. RecoveredJob(j) = jobs[j]
  <2>1. RecoveredJob(j) = jobs[j] \/ RecoveredJob(j).updated = sup.wall
    BY JobRecovered
  <2>2. CASE RecoveredJob(j).updated = sup.wall
    BY <1>1, <1>2, <2>2, AgedIsOld
  <2> QED
    BY <2>1, <2>2
<1>4. jobs[j].updated < sup.wall - JobRetention + TicksPerSecond
  BY <1>1, <1>2, <1>3, AgedIsOld
<1> QED
  BY <1>1, <1>2, <1>3, <1>4, RecordsAssumption DEF Time, NoTime

LEMMA RecoveredThere ==
  ASSUME Types, NEW j \in JobIds, jobs[j].state # "absent"
  PROVE  RecoveredJob(j).state # "absent"
<1> DEFINE row == [jobs[j] EXCEPT !.rev = @ + 1, !.updated = sup.wall]
           due == next_fixed_rate_utc(jobs[j].anchor, sup.wall, TicksPerSecond)
<1>1. jobs[j] \in JobRow
  BY DEF Types
<1>2. row.state = jobs[j].state
  BY <1>1 DEF JobRow
<1>3. [row EXCEPT !.state = "interrupted"].state = "interrupted"
      /\ [row EXCEPT !.state = "missed"].state = "missed"
      /\ [row EXCEPT !.due = due].state = row.state
  BY <1>1 DEF JobRow
<1>4. RecoveredJob(j) \in {[row EXCEPT !.state = "interrupted"], [row EXCEPT !.state = "missed"],
                           [row EXCEPT !.due = due], jobs[j]}
  BY DEF RecoveredJob
<1> HIDE DEF row, due
<1> QED
  BY <1>2, <1>3, <1>4

(* What startup removes was over, and old enough, whatever the clock.      *)
RetentionStep ==
  LET old(t, retention) == t # NoTime /\ t < sup.wall - retention + TicksPerSecond
  IN  /\ \A j \in JobRows : jobs'[j].state = "absent" =>
           jobs[j].state \in JobTerminal /\ old(jobs[j].updated, JobRetention)
      /\ \A r \in RunRows : runs'[r].state = "absent" =>
           /\ runs[r].state \in RunTerminal
           /\ jobs'[runs[r].job].state = "absent" \/ old(runs[r].finished, HistoryRetention)

LEMMA RecoverSpares ==
  ASSUME Types, Recover
  PROVE  RetentionStep
<1> DEFINE gone == [NoJobRow EXCEPT !.rev = 1]
<1>1. gone.state = "absent"
  BY DEF NoJobRow
<1>2. \A j \in JobIds : jobs'[j] = IF Kept(j, RecoveredJob(j)) THEN RecoveredJob(j) ELSE gone
  BY DEF Recover
<1>3. ASSUME NEW r \in RunIds
      PROVE  \/ runs'[r] = RecoveredRun(r)
             \/ RecoveredRun(r).state \in RunTerminal /\ Aged(RecoveredRun(r).finished, HistoryRetention)
             \/ runs[r].job \in JobIds => ~Kept(runs[r].job, RecoveredJob(runs[r].job))
  <2>1. RecoveredRun(r).job = runs[r].job
    BY RunRecovered
  <2> QED
    BY <2>1 DEF Recover
<1> HIDE DEF gone
<1>4. ASSUME NEW j \in JobRows, jobs'[j].state = "absent"
      PROVE  /\ jobs[j].state \in JobTerminal
             /\ jobs[j].updated # NoTime /\ jobs[j].updated < sup.wall - JobRetention + TicksPerSecond
  <2>1. j \in JobIds /\ jobs[j].state # "absent"
    BY DEF JobRows
  <2>2. ~Kept(j, RecoveredJob(j))
    BY <1>2, <1>4, <2>1, RecoveredThere
  <2> QED
    BY <2>1, <2>2, JobDropped
<1>5. ASSUME NEW r \in RunRows, runs'[r].state = "absent"
      PROVE  /\ runs[r].state \in RunTerminal
             /\ \/ jobs'[runs[r].job].state = "absent"
                \/ /\ runs[r].finished # NoTime
                   /\ runs[r].finished < sup.wall - HistoryRetention + TicksPerSecond
  <2>1. r \in RunIds /\ Row(runs[r]) /\ runs[r].state # "absent" /\ runs[r].job \in JobIds
    BY DEF RunRows, Types, Row, Coherent
  <2>2. /\ runs[r].state \in RunTerminal => runs[r].finished # NoTime
        /\ runs[r].finished \in Time \cup {NoTime}
        /\ runs[r].state \in RunActive \cup RunTerminal
    BY <2>1 DEF Row, RunShape, Coherent, OutcomeHolds, RunRowState, RunState, RunActive, RunTerminal
  <2>3. RecoveredRun(r) = runs[r] \/ (RecoveredRun(r).finished = sup.wall /\ RecoveredRun(r).state # "absent")
    BY <2>1, RunRecovered
  <2>4. sup.wall \in Time /\ HistoryRetention \in Nat /\ HistoryRetention >= TicksPerSecond
    BY RecordsAssumption DEF Types
  <2>5. CASE RecoveredRun(r).state \in RunTerminal /\ Aged(RecoveredRun(r).finished, HistoryRetention)
    <3>1. RecoveredRun(r) = runs[r]
      BY <2>3, <2>4, <2>5, AgedIsOld
    <3> QED
      BY <2>2, <2>4, <2>5, <3>1, AgedIsOld
  <2>6. CASE ~Kept(runs[r].job, RecoveredJob(runs[r].job))
    <3>1. jobs'[runs[r].job].state = "absent"
      BY <1>1, <1>2, <2>1, <2>6
    <3>2. jobs[runs[r].job].state \in JobTerminal
      BY <2>1, <2>6, JobDropped
    <3>3. runs[r].state \notin RunActive
      <4> SUFFICES ASSUME runs[r].state \in RunActive PROVE FALSE
        OBVIOUS
      <4>1. jobs[runs[r].job].state \in Underway
        BY DEF Recover, Loaded, ActiveRuns
      <4> QED
        BY <3>2, <4>1 DEF JobTerminal, Underway
    <3> QED
      BY <2>2, <3>1, <3>3
  <2> QED
    BY <1>3, <1>5, <2>1, <2>3, <2>5, <2>6
<1> QED
  BY <1>4, <1>5 DEF RetentionStep

(* Retention spares the young: a startup that finds an active run has its  *)
(* job underway, what it ends itself it ends now, and the day it keeps is  *)
(* longer than the second the texts may be off by.                         *)
THEOREM RetentionSparesTheYoungHolds == Spec => RetentionSparesTheYoung
<1>1. Types => (Recover => RetentionStep)
  BY RecoverSpares
<1>2. ASSUME Types /\ [Next]_vars PROVE [Recover => RetentionStep]_vars
  BY <1>1, <1>2
<1> QED
  BY <1>2, TypesHold, PTL DEF Spec, RetentionSparesTheYoung, RetentionStep

-------------------------------------------------------------------------------
(* What a step may do to the clocks, while none is set back.               *)
TimeMoves ==
  faults'.steps = 0 =>
    /\ faults.steps = 0 /\ now <= now'
    /\ sup' = sup \/ sup'.pc # "starting" \/ (sup'.wall = now /\ UNCHANGED <<jobs, runs>>)

LEMMA TimesMove ==
  ASSUME Types, [Next]_vars
  PROVE  TimeMoves
<1>0. faults \in [steps : Nat, deaths : Nat, starts : Nat] /\ now \in Nat
  BY RecordsAssumption DEF Types, Time
<1>1. CASE UNCHANGED <<now, faults, sup>>
  BY <1>0, <1>1 DEF TimeMoves
<1>2. CASE SupervisorStarts
  <2>1. faults'.steps = faults.steps /\ sup'.wall = now /\ UNCHANGED <<now, jobs, runs>>
    BY <1>0, <1>2 DEF SupervisorStarts
  <2> QED
    BY <1>0, <2>1 DEF TimeMoves
<1>3. CASE RecoveryFails \/ Recover
  <2>1. UNCHANGED <<now, faults>> /\ sup'.pc # "starting"
    BY <1>3 DEF RecoveryFails, Recover
  <2> QED
    BY <1>0, <2>1 DEF TimeMoves
<1>4. CASE Tick
  BY <1>0, <1>4 DEF Tick, TimeMoves
<1>5. CASE SetBack
  <2>1. faults'.steps = faults.steps + 1 /\ faults.steps \in Nat
    BY <1>0, <1>5 DEF SetBack
  <2> QED
    BY <2>1 DEF TimeMoves
<1>6. ASSUME NEW r \in RunIds, MonitorDies(r) PROVE TimeMoves
  <2>1. UNCHANGED <<now, sup>> /\ faults'.steps = faults.steps
    BY <1>0, <1>6 DEF MonitorDies
  <2> QED
    BY <1>0, <2>1 DEF TimeMoves
<1>7. CASE RecordsStep
  <2>1. ASSUME NEW j \in JobIds, CreateJob(j) PROVE UNCHANGED <<now, faults, sup>>
    BY <2>1 DEF CreateJob
  <2>2. ASSUME NEW j \in JobIds, NEW r \in RunIds, ExecuteDue(j, r) PROVE UNCHANGED <<now, faults, sup>>
    BY <2>2 DEF ExecuteDue
  <2>3. ASSUME NEW r \in RunIds,
               MarkRunning(r) \/ FailRun(r) \/ Drained(r) \/ RecordTruncation(r) \/ RecordTerminal(r)
                 \/ FinishJob(r) \/ MonitorErrors(r)
        PROVE  UNCHANGED <<now, faults, sup>>
    BY <2>3 DEF MarkRunning, FailRun, Drained, RecordTruncation, RecordTerminal, FinishJob,
                MonitorErrors, MonitorFrame
  <2> QED
    BY <1>1, <1>2, <1>3, <1>4, <1>5, <1>6, <1>7, <2>1, <2>2, <2>3 DEF RecordsStep
<1>8. CASE Change \/ Cancel
  <2>1. ASSUME NEW j, NEW x, NEW t
        PROVE  PrepareRerun(j, t) \/ HideJob(j, x) \/ MoveJob(j, x, t)
                 \/ CommitCancellation(j) \/ RecordCancelled(j) => UNCHANGED <<now, faults, sup>>
    BY DEF PrepareRerun, HideJob, MoveJob, CommitCancellation, RecordCancelled
  <2>2. UNCHANGED recordVars => UNCHANGED <<now, faults, sup>>
    BY DEF recordVars
  <2>3. Change => UNCHANGED <<now, faults, sup>>
    BY <2>1, <2>2 DEF Change, Rerun, RemoveJob
  <2>4. CancelResolve \/ LatestActiveRun \/ AwaitRun => UNCHANGED <<now, faults, sup>>
    BY <2>2 DEF CancelResolve, LatestActiveRun, AwaitRun
  <2>5. RequestCancel \/ EndCancelled \/ FinishCancel => UNCHANGED <<now, faults, sup>>
    BY <2>1, <2>2 DEF RequestCancel, EndCancelled, FinishCancel
  <2>6. CancelClaimed \/ EndUnstarted => UNCHANGED <<now, faults, sup>>
    BY <2>1, <2>2 DEF CancelClaimed, EndUnstarted
  <2> QED
    BY <1>1, <1>8, <2>3, <2>4, <2>5, <2>6 DEF Cancel
<1>9. CASE UNCHANGED recordVars
  BY <1>1, <1>9 DEF recordVars
<1>10. [Next]_vars => RecordsStep \/ Change \/ Cancel \/ UNCHANGED recordVars
  <2>1. Output => UNCHANGED recordVars
    BY DEF Output, FindRun, LatestRun, ReadFlag, ReadStream, Reads
  <2>2. Begin \/ List \/ Show \/ History \/ Ps \/ Refuse => UNCHANGED recordVars
    BY DEF Begin, List, Show, History, Ps, Refuse, Reads
  <2> QED
    BY <2>1, <2>2 DEF Next, Step, vars
<1> QED
  BY <1>7, <1>8, <1>9, <1>10

-------------------------------------------------------------------------------
(* The order of the instants a job row carries: a rerun, and the recovery  *)
(* of a job without runs, may have written an older clock.                 *)
JobTimes(j) ==
  LET x == jobs[j]
  IN  x.state # "absent" =>
        /\ x.rev >= 1 /\ x.created <= now /\ x.created <= x.anchor
        /\ \/ x.created <= x.due /\ x.created <= x.updated
           \/ x.created <= x.due /\ x.state = "interrupted" /\ RunsOf(j) = {}
           \/ x.state = "waiting" /\ x.updated = x.due

(* A run is not older than its job, and ends no earlier than it starts     *)
(* unless recovery ends it; its monitor saw its command end after both.    *)
RunTimes(r) ==
  LET x == runs[r]
      j == x.job
  IN  x.state # "absent" =>
        /\ jobs[j].rev >= 1 /\ (jobs[j].state # "absent" => jobs[j].created <= x.created)
        /\ x.created <= now
        /\ x.started # NoTime => x.created <= x.started /\ x.started <= now
        /\ x.finished # NoTime => x.created <= x.finished
        /\ (x.started # NoTime /\ x.finished # NoTime) => x.started <= x.finished \/ x.state = "interrupted"
        /\ (mons[r].pc \in {"drained", "flagged"} /\ x.started # NoTime) => x.started <= mons[r].finished

(* The runs a supervisor that starts may interrupt are older than its      *)
(* startup: none is claimed while none serves.                             *)
StartTimes ==
  sup.pc = "starting" =>
    \A r \in RunIds : runs[r].state # "absent" => runs[r].created <= sup.wall

Times ==
  faults.steps = 0 =>
    /\ \A j \in JobIds : JobTimes(j)
    /\ \A r \in RunIds : RunTimes(r)
    /\ StartTimes

(* The row of a job is created once.                                       *)
LEMMA JobLasts ==
  ASSUME Types, NEW j \in JobIds, JobMoves(j), jobs'[j] \in JobRow, jobs[j].rev >= 1
  PROVE  /\ jobs'[j].rev >= 1
         /\ jobs'[j].state # "absent" => jobs[j].state # "absent" /\ jobs'[j].created = jobs[j].created
<1>1. jobs[j].rev \in Nat /\ jobs'[j].rev \in Nat
  BY DEF Types, JobRow
<1>2. CASE jobs'[j] = jobs[j]
  BY <1>2
<1>3. CASE jobs'[j].state = "absent" /\ jobs'[j].rev = 1
  BY <1>3
<1>4. CASE jobs[j].state # "absent" /\ jobs'[j].created = jobs[j].created
           /\ (jobs'[j].rev = jobs[j].rev \/ jobs'[j].rev = jobs[j].rev + 1)
  BY <1>1, <1>4
<1>5. jobs[j].rev # 0
  OBVIOUS
<1> QED
  BY <1>2, <1>3, <1>4, <1>5 DEF JobMoves

(* A job that is over gets no further run.                                 *)
LEMMA NoRunsLast ==
  ASSUME Types, RowTypes, Moves, NEW j \in JobIds, RunsOf(j) = {},
         sup.pc # "serving" \/ jobs[j].state \notin Pending
  PROVE  RunsOf(j)' = {}
<1> SUFFICES ASSUME NEW r \in RunIds, runs'[r].state # "absent", runs'[r].job = j
             PROVE  FALSE
  BY DEF RunsOf, RunRows
<1>1. RunMoves(r) /\ runs'[r] # NoRunRow
  BY DEF Moves, NoRunRow
<1>2. runs'[r] = runs[r] \/ (runs[r].state # "absent" /\ runs'[r].job = runs[r].job)
  BY <1>1 DEF RunMoves
<1>3. runs[r].state # "absent" /\ runs[r].job = j
  BY <1>2
<1> QED
  BY <1>3 DEF RunsOf, RunRows

LEMMA JobTimesKept ==
  ASSUME Types, RowTypes, Moves, NEW j \in JobIds, now <= now',
         JobTimes(j), StartTimes, \A r \in RunIds : RunTimes(r)
  PROVE  JobTimes(j)'
<1> DEFINE x == jobs[j]
           y == jobs'[j]
           Early == /\ y.rev >= 1 /\ y.created <= now' /\ y.created <= y.anchor
           Late == \/ y.created <= y.due /\ y.created <= y.updated
                   \/ y.created <= y.due /\ y.state = "interrupted" /\ RunsOf(j)' = {}
                   \/ y.state = "waiting" /\ y.updated = y.due
<1> SUFFICES ASSUME y.state # "absent"
             PROVE  Early /\ Late
  BY DEF JobTimes
<1>1. /\ x.rev \in Nat /\ x.created \in Nat /\ x.updated \in Nat /\ x.due \in Nat /\ x.anchor \in Nat
      /\ y.rev \in Nat /\ y.created \in Nat /\ y.updated \in Nat /\ y.due \in Nat /\ y.anchor \in Nat
      /\ now \in Nat /\ now' \in Nat /\ sup.wall \in Nat
  <2>1. x \in JobRow /\ y \in JobRow /\ now \in Time /\ now' \in Time /\ sup.wall \in Time
    BY DEF Types, RowTypes
  <2>3. Time \subseteq Nat
    BY RecordsAssumption DEF Time
  <2> HIDE DEF x, y
  <2> QED
    BY <2>1, <2>3 DEF JobRow
<1>2. x.state # "absent" =>
        /\ x.rev >= 1 /\ x.created <= now /\ x.created <= x.anchor
        /\ \/ x.created <= x.due /\ x.created <= x.updated
           \/ x.created <= x.due /\ x.state = "interrupted" /\ RunsOf(j) = {}
           \/ x.state = "waiting" /\ x.updated = x.due
  BY DEF JobTimes
<1>3. x.state = "interrupted" /\ RunsOf(j) = {} => RunsOf(j)' = {}
  BY NoRunsLast DEF Pending
<1>4. JobMoves(j)
  BY DEF Moves
<1> DEFINE Stays == x.state # "absent" /\ y.created = x.created /\ y.anchor = x.anchor
           Next1 == Stays /\ y.rev = x.rev + 1
           Due   == y.due = x.due \/ y.due >= x.anchor
<1>5. \/ y = x
      \/ y.rev = 1 /\ y.created = now /\ y.updated = now /\ y.due >= now /\ y.anchor >= now
      \/ Stays /\ y.state = x.state /\ y.due = x.due /\ y.rev = x.rev /\ y.updated = x.updated
      \/ Next1 /\ x.created <= x.updated /\ x.updated <= y.updated /\ Due
      \/ Next1 /\ y.state = "waiting" /\ y.updated = y.due
      \/ /\ Next1 /\ sup.pc = "starting" /\ y.updated = sup.wall /\ x.created <= x.updated /\ Due
         /\ x.state \in Underway /\ y.state = "interrupted"
      \/ /\ Next1 /\ sup.pc = "starting" /\ y.updated = sup.wall /\ x.created <= x.updated /\ Due
         /\ x.due <= sup.wall
  BY <1>4 DEF JobMoves
<1>a. CASE y = x
  <2> HIDE DEF x, y
  <2> QED
    BY <1>1, <1>2, <1>3, <1>a
<1>b. CASE y.rev = 1 /\ y.created = now /\ y.updated = now /\ y.due >= now /\ y.anchor >= now
  <2> HIDE DEF x, y
  <2> QED
    BY <1>1, <1>b
<1>c. CASE Stays /\ y.state = x.state /\ y.due = x.due /\ y.rev = x.rev /\ y.updated = x.updated
  <2> HIDE DEF x, y
  <2> QED
    BY <1>1, <1>2, <1>3, <1>c
<1>d. ASSUME Next1 PROVE Early
  <2> HIDE DEF x, y
  <2> QED
    BY <1>1, <1>2, <1>d
<1>e. ASSUME Next1, x.created <= x.updated, Due PROVE y.created <= y.due
  <2> HIDE DEF x, y
  <2> QED
    BY <1>1, <1>2, <1>e
<1>f. CASE Next1 /\ x.created <= x.updated /\ x.updated <= y.updated /\ Due
  <2>1. y.created <= y.updated
    <3> HIDE DEF x, y
    <3> QED
      BY <1>1, <1>f
  <2> QED
    BY <1>d, <1>e, <1>f, <2>1
<1>g. CASE Next1 /\ y.state = "waiting" /\ y.updated = y.due
  BY <1>d, <1>g
<1>h. CASE /\ Next1 /\ sup.pc = "starting" /\ y.updated = sup.wall /\ x.created <= x.updated /\ Due
           /\ x.state \in Underway /\ y.state = "interrupted"
  <2>1. CASE RunsOf(j) = {}
    <3>1. RunsOf(j)' = {}
      BY <1>h, <2>1, NoRunsLast
    <3> QED
      BY <1>d, <1>e, <1>h, <3>1
  <2>2. CASE RunsOf(j) # {}
    <3>1. PICK r \in RunIds : runs[r].state # "absent" /\ runs[r].job = j
      BY <2>2 DEF RunsOf, RunRows
    <3>2. runs[r].created <= sup.wall /\ x.created <= runs[r].created
      BY <1>h, <3>1 DEF StartTimes, RunTimes
    <3>3. runs[r].created \in Nat
      <4>1. runs[r].created \in Time
        BY DEF Types, Row, RunShape
      <4> QED
        BY <4>1, RecordsAssumption DEF Time
    <3>4. y.created <= y.updated
      <4> HIDE DEF x, y
      <4> QED
        BY <1>1, <1>h, <3>2, <3>3
    <3> QED
      BY <1>d, <1>e, <1>h, <3>4
  <2> QED
    BY <2>1, <2>2
<1>i. CASE /\ Next1 /\ sup.pc = "starting" /\ y.updated = sup.wall /\ x.created <= x.updated /\ Due
           /\ x.due <= sup.wall
  <2>1. y.created <= y.updated
    <3> HIDE DEF x, y
    <3> QED
      BY <1>1, <1>2, <1>i
  <2> QED
    BY <1>d, <1>e, <1>i, <2>1
<1> HIDE DEF Early, Late, Next1, Stays, Due, x, y
<1> QED
  BY <1>5, <1>a, <1>b, <1>c, <1>f, <1>g, <1>h, <1>i

LEMMA RunTimesKept ==
  ASSUME Types, RowTypes, Moves, NEW r \in RunIds, now <= now', RunTimes(r), StartTimes,
         \A k \in JobIds : JobTimes(k)
  PROVE  RunTimes(r)'
<1> DEFINE x == runs[r]
           y == runs'[r]
<1> SUFFICES ASSUME y.state # "absent" PROVE RunTimes(r)'
  BY DEF RunTimes
<1>1. /\ Row(x) /\ Row(y) /\ mons[r] \in MonitorRow /\ mons'[r] \in MonitorRow
      /\ now \in Nat /\ now' \in Nat /\ sup.wall \in Nat
  BY RecordsAssumption DEF Types, RowTypes, Time
<1>2. /\ y.created \in Nat /\ y.started \in Nat \cup {NoTime} /\ y.finished \in Nat \cup {NoTime}
      /\ x.created \in Nat /\ x.started \in Nat \cup {NoTime} /\ x.finished \in Nat \cup {NoTime}
      /\ mons[r].finished \in Nat \cup {NoTime} /\ mons'[r].finished \in Nat \cup {NoTime}
  BY <1>1, RecordsAssumption DEF Row, RunShape, MonitorRow, Time
<1>3. RunMoves(r) /\ MonMoves(r)
  BY DEF Moves
<1>4. y.job \in JobIds /\ JobMoves(y.job) /\ jobs'[y.job] \in JobRow
  BY <1>1 DEF Row, Coherent, Moves, RowTypes
<1>5. /\ NoTime \notin Nat
      /\ y # NoRunRow
  BY DEF NoTime, NoRunRow
<1> DEFINE j == y.job
           Job == /\ jobs'[j].rev >= 1
                  /\ jobs'[j].state # "absent" => jobs'[j].created <= y.created
           Life == /\ y.created <= now'
                   /\ y.started # NoTime => y.created <= y.started /\ y.started <= now'
                   /\ y.finished # NoTime => y.created <= y.finished
                   /\ (y.started # NoTime /\ y.finished # NoTime) =>
                        y.started <= y.finished \/ y.state = "interrupted"
           Seen == (mons'[r].pc \in {"drained", "flagged"} /\ y.started # NoTime)
                     => y.started <= mons'[r].finished
<1>6. x.state # "absent" =>
        /\ jobs[x.job].rev >= 1 /\ (jobs[x.job].state # "absent" => jobs[x.job].created <= x.created)
        /\ x.created <= now
        /\ x.started # NoTime => x.created <= x.started /\ x.started <= now
        /\ x.finished # NoTime => x.created <= x.finished
        /\ (x.started # NoTime /\ x.finished # NoTime) => x.started <= x.finished \/ x.state = "interrupted"
        /\ (mons[r].pc \in {"drained", "flagged"} /\ x.started # NoTime) => x.started <= mons[r].finished
  BY DEF RunTimes
<1>7. Job
  <2>1. CASE x.state # "absent" /\ y.job = x.job /\ y.created = x.created
    <3>1. jobs[j].rev >= 1 /\ (jobs[j].state # "absent" => jobs[j].created <= y.created)
      BY <1>6, <2>1
    <3> QED
      BY <1>4, <3>1, JobLasts
  <2>2. CASE y.created = now /\ jobs[j].state # "absent" /\ jobs[j].created <= now /\ jobs[j].rev >= 1
    BY <1>4, <2>2, JobLasts
  <2>3. jobs[j].state # "absent" => jobs[j].rev >= 1
    BY <1>4 DEF JobTimes
  <2>4. \/ y = x
        \/ y.created = now /\ jobs[j].state # "absent" /\ jobs[j].created <= now
        \/ x.state # "absent" /\ y.job = x.job /\ y.created = x.created
    BY <1>3, <1>5 DEF RunMoves, Pending
  <2> QED
    BY <2>1, <2>2, <2>3, <2>4
<1>8. Life
  <2>1. CASE y = x
    BY <1>1, <1>2, <1>6, <2>1
  <2>2. CASE y.created = now /\ y.started = NoTime /\ y.finished \in {NoTime, now}
    BY <1>1, <1>2, <2>2
  <2>3. CASE /\ x.state # "absent" /\ x.finished = NoTime /\ y.created = x.created
             /\ x.created <= now /\ y.started = now /\ y.finished = NoTime
    BY <1>1, <1>2, <1>6, <2>3
  <2>4. CASE /\ x.state # "absent" /\ x.finished = NoTime /\ y.created = x.created
             /\ y.started = x.started /\ x.created <= now /\ y.finished = now
    BY <1>1, <1>2, <1>6, <2>4
  <2>5. CASE /\ x.state # "absent" /\ x.finished = NoTime /\ y.created = x.created
             /\ mons[r].pc = "flagged" /\ y.started = x.started
             /\ y.finished = mons[r].finished /\ x.created <= mons[r].finished
    BY <1>1, <1>2, <1>6, <2>5
  <2>6. CASE /\ x.state # "absent" /\ y.created = x.created
             /\ y.started = x.started /\ y.finished = NoTime
    BY <1>1, <1>2, <1>6, <2>6
  <2>7. CASE /\ x.state # "absent" /\ x.finished = NoTime /\ y.created = x.created
             /\ sup.pc = "starting" /\ y.started = x.started /\ y.finished = sup.wall
             /\ y.state = "interrupted"
    <3>1. x.created <= sup.wall
      BY <2>7 DEF StartTimes
    <3> QED
      BY <1>1, <1>2, <1>6, <2>7, <3>1
  <2> HIDE DEF Life
  <2> QED
    BY <1>3, <1>5, <2>1, <2>2, <2>3, <2>4, <2>5, <2>6, <2>7 DEF RunMoves
<1>9. Seen
  <2> SUFFICES ASSUME mons'[r].pc \in {"drained", "flagged"}, y.started # NoTime
               PROVE  y.started <= mons'[r].finished
    OBVIOUS
  <2>1. \/ mons'[r] = mons[r]
        \/ mons[r].pc = "running" /\ mons'[r].finished = now
        \/ mons[r].pc = "drained" /\ mons'[r].finished = mons[r].finished
    BY <1>3 DEF MonMoves
  <2>2. mons[r].pc \in {"running", "drained", "flagged"}
    BY <2>1
  <2>3. x.state # "absent" /\ y.started = x.started
    BY <1>3, <1>5, <2>2 DEF RunMoves
  <2> QED
    BY <1>1, <1>2, <1>6, <2>1, <2>2, <2>3
<1> QED
  BY <1>7, <1>8, <1>9 DEF RunTimes

LEMMA StartTimesKept ==
  ASSUME Moves, StartTimes, \A r \in RunIds : RunTimes(r),
         sup' = sup \/ sup'.pc # "starting" \/ (sup'.wall = now /\ UNCHANGED <<jobs, runs>>)
  PROVE  StartTimes'
<1> SUFFICES ASSUME sup'.pc = "starting", NEW r \in RunIds, runs'[r].state # "absent"
             PROVE  runs'[r].created <= sup'.wall
  BY DEF StartTimes
<1>1. CASE sup'.wall = now /\ UNCHANGED <<jobs, runs>>
  BY <1>1 DEF RunTimes
<1>2. CASE sup' = sup
  <2>1. sup.pc = "starting" /\ (runs[r].state # "absent" => runs[r].created <= sup.wall)
    BY <1>2 DEF StartTimes
  <2>2. RunMoves(r) /\ runs'[r] # NoRunRow
    BY DEF Moves, NoRunRow
  <2>3. runs'[r] = runs[r] \/ (runs[r].state # "absent" /\ runs'[r].created = runs[r].created)
    BY <2>1, <2>2 DEF RunMoves
  <2> QED
    BY <1>2, <2>1, <2>3
<1> QED
  BY <1>1, <1>2

LEMMA TimesKept ==
  ASSUME Types, Times, [Next]_vars
  PROVE  Times'
<1> SUFFICES ASSUME faults'.steps = 0
             PROVE  /\ \A j \in JobIds : JobTimes(j)'
                    /\ \A r \in RunIds : RunTimes(r)'
                    /\ StartTimes'
  BY DEF Times
<1>1. /\ faults.steps = 0 /\ now <= now'
      /\ sup' = sup \/ sup'.pc # "starting" \/ (sup'.wall = now /\ UNCHANGED <<jobs, runs>>)
  BY TimesMove DEF TimeMoves
<1>2. /\ \A j \in JobIds : JobTimes(j)
      /\ \A r \in RunIds : RunTimes(r)
      /\ StartTimes
  BY <1>1 DEF Times
<1>3. RowTypes /\ Moves
  BY StepsMove
<1>5. \A j \in JobIds : JobTimes(j)'
  BY <1>1, <1>2, <1>3, JobTimesKept
<1>6. \A r \in RunIds : RunTimes(r)'
  BY <1>1, <1>2, <1>3, RunTimesKept
<1> QED
  BY <1>1, <1>2, <1>3, <1>5, <1>6, StartTimesKept

LEMMA TimesFirst == Init => Times
<1> SUFFICES ASSUME Init PROVE Times
  OBVIOUS
<1>1. \A j \in JobIds : jobs[j].state = "absent"
  BY DEF Init, RecordsInit, NoJobRow
<1>2. \A r \in RunIds : runs[r].state = "absent"
  BY DEF Init, RecordsInit, NoRunRow
<1>3. sup.pc # "starting"
  BY DEF Init, RecordsInit
<1> QED
  BY <1>1, <1>2, <1>3 DEF Times, JobTimes, RunTimes, StartTimes

LEMMA TimesReadable ==
  ASSUME Types, Times
  PROVE  RowsReadable
<1> SUFFICES ASSUME faults.steps = 0
             PROVE  /\ \A j \in JobRows :
                         \/ JobReadable(j)
                         \/ jobs[j].state = "waiting" /\ jobs[j].updated = jobs[j].due
                         \/ jobs[j].state = "interrupted" /\ RunsOf(j) = {}
                    /\ \A r \in RunRows :
                         RunReadable(r) \/ (runs[r].state = "interrupted" /\ runs[r].finished < runs[r].started)
  BY DEF RowsReadable
<1>1. ASSUME NEW j \in JobRows
      PROVE  \/ JobReadable(j)
             \/ jobs[j].state = "waiting" /\ jobs[j].updated = jobs[j].due
             \/ jobs[j].state = "interrupted" /\ RunsOf(j) = {}
  BY DEF Times, JobTimes, JobRows, JobReadable
<1>2. ASSUME NEW r \in RunRows
      PROVE  RunReadable(r) \/ (runs[r].state = "interrupted" /\ runs[r].finished < runs[r].started)
  <2>1. r \in RunIds /\ runs[r].state # "absent" /\ Row(runs[r]) /\ RunTimes(r)
    BY DEF RunRows, Types, Times
  <2>2. OutcomeHolds(runs[r]) /\ runs[r].column = OutcomeColumn(runs[r].outcome)
    BY <2>1 DEF Row, Coherent
  <2>3. /\ runs[r].started \in Time \cup {NoTime} /\ runs[r].finished \in Time \cup {NoTime}
        /\ Time \subseteq Nat
    BY <2>1, RecordsAssumption DEF Row, RunShape, Time
  <2>4. /\ runs[r].started # NoTime => runs[r].created <= runs[r].started
        /\ runs[r].finished # NoTime => runs[r].created <= runs[r].finished
        /\ (runs[r].started # NoTime /\ runs[r].finished # NoTime) =>
             runs[r].started <= runs[r].finished \/ runs[r].state = "interrupted"
    BY <2>1 DEF RunTimes
  <2>5. CASE TimelineHolds(runs[r])
    BY <2>2, <2>5 DEF RunReadable
  <2>6. CASE ~TimelineHolds(runs[r])
    <3>1. runs[r].started # NoTime /\ runs[r].finished # NoTime
            /\ ~(runs[r].started <= runs[r].finished) /\ runs[r].state = "interrupted"
      BY <2>4, <2>6 DEF TimelineHolds
    <3>2. runs[r].started \in Nat /\ runs[r].finished \in Nat
      BY <2>3, <3>1
    <3>3. runs[r].finished < runs[r].started
      BY <3>1, <3>2
    <3> QED
      BY <3>1, <3>3
  <2> QED
    BY <2>5, <2>6
<1> QED
  BY <1>1, <1>2

(* With a clock that is never set back Job::rehydrate reads every row back *)
(* but that of a rerun and that of a job that recovery ended without a     *)
(* run, which carry the older clock their writer had read, and             *)
(* Run::rehydrate all but a run that recovery ended while its monitor      *)
(* marked it as running.  Any other job that is interrupted has a run that *)
(* is older than the startup, as none is claimed while none serves.        *)
THEOREM RowsReadableHolds == Spec => []RowsReadable
<1>1. Types /\ Times /\ [Next]_vars => Times'
  BY TimesKept
<1>2. Types /\ Times => RowsReadable
  BY TimesReadable
<1> QED
  BY <1>1, <1>2, TimesFirst, TypesHold, PTL DEF Spec

===============================================================================
