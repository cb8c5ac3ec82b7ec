# atx in TLA+

atx schedules commands for one user: `atx schedule` stores a job in a SQLite
database and wakes a supervisor; the supervisor starts a monitor process per
due run; the monitor starts the command, waits for it and records the outcome;
`atx cancel`, `atx run` and `atx remove` work on the same database from
processes of their own. Nothing but the database, a Unix socket and signals
connects these processes, any of them can die at any step, and no transaction
spans two of them. This project models that core and what surrounds it — the
command line, configuration, database opening, service management, queries —
checks the models with TLC and proves the main safety properties with TLAPS.

Source paths below are relative to `src/src/`, documents to `src/docs/`.

## Inventory

| component | state | operations | talks to |
|---|---|---|---|
| domain (`domain/state.rs`, `transition.rs`, `run.rs`, `recurrence.rs`) | none | legal transitions, completion, next fixed-rate instant | used by all |
| store (`infrastructure/sqlite/*`) | tables `jobs`, `runs` | create, transition, advance, claim, mark, record, request cancellation, rerun, hide, retention | shared by all processes |
| startup recovery (`application/reconcile.rs`, `sqlite/reconcile.rs`, `supervisor/recovery.rs`) | the plan | two SELECTs, plan, apply, cleanup, rebuild the heap | store |
| due execution (`supervisor/daemon.rs`) | the due batch, the job in hand | load, wait, start, claim, mark, spawn, the error paths | store, monitors |
| event loop and IPC (`supervisor/loop_driver.rs`, `daemon.rs`, `ipc.rs`) | heap, channel, retries, two threads | wake, pop, requeue, idle exit, shutdown | clients, due execution |
| runtime lock (`supervisor/ipc.rs`) | lock file, socket file, the guard | take, take over, bind, yield, drop | supervisor processes |
| deadline heap (`supervisor/heap.rs`) | vector and index | upsert, remove, pop_due, next | event loop |
| monitor (`run_monitor/mod.rs`, `lifecycle.rs`) | its run, the command | load, spawn, mark, reap, record, finish the job, wake | store, command, supervisor |
| cancellation (`cli/dispatch.rs`, `application/cancel.rs`) | job, run and revision it read | request, commit, signal, kill, record, poll, finish | store, command |
| submission, rerun, removal (`cli/dispatch.rs`, `application/submit.rs`, `list.rs`) | the wake in progress | store, wake, give up | store, supervisor |
| processes (`infrastructure/process/*`) | the kernel's process table, recorded identities | inspect, classify, spawn, signal a group | monitor, canceller, runtime lock |
| output capture (`run_monitor/capture.rs`, `tty.rs`) | two pipes, two logs, a terminal | drain, cap, note the truncation, echo | monitor, command, store |
| child reaping (`supervisor/children.rs`, `daemon.rs`) | the registry and its lock, pending signals | spawn and register, wait for a signal, reap, stop | monitors, event loop |
| database opening (`infrastructure/sqlite/mod.rs`) | the file and its schema version | create, wait for a creator, migrate, verify | every process |
| service (`application/service.rs`, `infrastructure/service/*`) | unit file, its temporary file, the manager's knowledge | install, uninstall, roll back, status | systemd, launchd |
| doctor (`application/doctor.rs`, `cli/dispatch.rs`) | the report | one check after the other | directories, database, clocks, lock, service |
| queries (`application/history.rs`, `list.rs`, `sqlite/management.rs`) | what was read so far | list, show, history, ps, output | store, logs |
| command line and configuration (`cli/args.rs`, `infrastructure/config/mod.rs`, `paths/mod.rs`) | options, layers | parse, reorder, load, validate | submission |
| schedules and executions (`domain/calendar*.rs`, `duration.rs`, `execution.rs`, `id.rs`) | none | parse, resolve, validate, print, read back | submission, store |

What is hard here:

- *Reads that are stale when used.* `cancel_job` looks for an active run once,
  before its compare-and-swap loop; recovery reads runs and jobs in two SELECTs
  and applies its plan later; `finish_job` writes what it decided from an older
  load; a due job is executed because it waits, whatever its deadline is now.
- *Commits that belong together and are apart.* The job becomes `starting`, its
  run is claimed, the job becomes `running`, the monitor is spawned: four
  steps, each of which can be the last of its process.
- *Three writers of one run.* Monitor, canceller and recovery.
- *Ordering across processes.* The cancellation must be durable before the
  signal; `Schedule` must be in the channel before the `Ack` is out; a wake can
  come while the loop is leaving.
- *Liveness.* A cancelled job must end although canceller, monitor and command
  each wait for another; a failing job must not hold up the others; a command
  must never block on its own output.
- *Names that are reused.* Process ids, process groups, inodes, and boots that
  count from zero again: whoever acts on a recorded one must know that it still
  means the same.
- *Several steps, any of which fails.* Installing a service, creating and
  migrating a database, saving a job and having it acknowledged.
- *Text for values.* Timestamps are compared, durations, identifiers and
  executions stored as text that is validated on every load: a row that cannot
  be read back stops the next supervisor.

PROJECT.json lists each of these as a hazard at its line, with the properties
that would catch it going wrong.

## Modules

| module | models | kind |
|---|---|---|
| `Domain` | transition tables, `complete_run`, `next_fixed_rate_utc` | operators |
| `Store` | the two tables; one operator per committed statement or transaction | state |
| `Supervisor` | recovery, deadline heap (as a map), due execution | actions |
| `Monitor` | monitors and commands | actions |
| `Cli` | submission, rerun, removal, cancellers | actions |
| `Lifecycle` | all of the above together, faults, clock; the properties | composition |
| `MCLifecycle`, `MCRecovery` | policies, delays and workloads for TLC | instance |
| `SupervisorLoop`, `MCSupervisorLoop` | event loop, IPC thread, channel, retries, clients | actions |
| `RuntimeLock`, `MCRuntimeLock` | `RuntimeGuard`: lock and socket of the supervisor processes | actions |
| `Deadlines` | what the heap promises: an ordered map of deadlines | abstract |
| `DeadlineHeap` | the indexed binary heap, implementing `Deadlines` | detailed |
| `Processes` | process table, identities, classification | state |
| `Capture` | the cap of a log, the truncation note, the echo | operators |
| `Command`, `MCCommand` | one run's monitor, capture threads, command, canceller, over `Processes` and `Capture` | composition |
| `MonitorChildren` | the supervisor's children: registry, signal worker | actions |
| `MCSupervisor` | `SupervisorLoop` and `MonitorChildren` for TLC, one at a time | instance |
| `Invocations` | the atx processes a user starts, as program counters | state |
| `Opening` | `Database::open` by several processes | actions |
| `Service` | install, uninstall, rollback over systemd and launchd | actions |
| `Host`, `MCHost` | one machine: `Opening` and `Service` together with directories, submission, list, doctor | composition |
| `Records` | rows with their timestamps and columns, their writers, what a read accepts, retention | actions |
| `Queries`, `MCQueries` | the management commands beside the writers of `Records` | composition |
| `Texts` | durations, identifiers and timestamps, parsed and printed | operators |
| `Arguments` | the command line: declarations, reordering, parsing | operators |
| `Configuration` | layers of configuration, directories | operators |
| `Calendar` | words of WHEN, zones, gaps and folds, deadlines | operators |
| `Execution` | what a job runs, and its stored text | operators |
| `Requests`, `MCRequests` | one scheduling command from its words to its exit code, over the five above | composition |
| `LifecycleProofs` | type correctness and the safety theorems of `Lifecycle` | proofs |
| `DeadlineHeapProofs` | the heap's order and index, and that it implements `Deadlines`, for any jobs and instants | proofs |
| `SupervisorProofs` | the threads of a supervisor: `AckedIsOwned` of `SupervisorLoop` for any jobs and connections, `NoExitMissed` of `MonitorChildren` for any number of children | proofs |
| `RuntimeLockProofs` | `FirstIsOnly` and `SomebodyServes` for any number of processes | proofs |
| `CommandProofs` | the safety theorems of `Command`: whom a signal reaches, what logs and terminal hold | proofs |
| `HostProofs` | the safety theorems of `Host`, for any number of processes, faults and migrations | proofs |
| `QueriesProofs` | the theorems of `Queries`, for any jobs, runs, workloads and resolution of the clock | proofs |
| `RequestsProofs` | the theorems of `Requests`, for any commands, zones, clocks, layers and texts | proofs |

`SupervisorProofs` extends two components, so the specification of the second is
named apart: `ChildrenInit`, `ChildrenNext`, `ChildrenSpec`.

`Store` is extended by `Supervisor`, `Monitor` and `Cli`, which are independent
of one another; `Lifecycle` puts their steps side by side over one database.
`Domain` is shared by `Store`, `Records` and `Command`. The other compositions
look closer at what `Lifecycle` takes as one step: `Command` at the spawn, the
capture and the signals of one run, `Records` and `Queries` at the timestamps of
the rows and at readers, `Host` and `Requests` at what happens before a job is
stored.

### State and steps

`jobs` and `runs` are the tables; a row that is not there has state `"absent"`.
A row keeps what decides about its life: state, revision, due instant and
anchor, hidden for a job; state, job, slot (the scheduled instant it was
claimed for) and whether the monitor recorded the command's identity (`marked`)
for a run. Claim tokens are left out: a token is created with its run and
reaches only holders of the run's id, so the id stands for both. `permits` and
`claims` are history variables: how often a user asked for a job, how often a
run of it was claimed.

One action is one committed statement or transaction together with the code up
to the next one. Some code reads and then writes in two statements that the
model takes as one step; each time the second statement's WHERE clause repeats
what the first one found, so that every interleaving of the two has the outcome
of the merged step or of a refusal, which changes nothing:
`mark_run_running`, `record_run_terminal`, `prepare_rerun`, `hide_job`, one
attempt of `cancel_job`'s compare-and-swap loop, `finish_job_cancellation`.
`MonReap` takes the truncation note and the second load of the run as one step:
the note is not modelled, and the load happens at its end.

Where a read and its use are *not* protected this way they are two steps:
`CancelBegin`/`CancelRequest`, `CancelLoad`/`CancelCommit`,
`LoadActiveRuns`/`PlanRecovery`/`ApplyRecovery`, `ExecLoad`/`ExecWait`/
`ExecStart`/`ExecClaim`/`ExecMark`, `MonLoadJob`/`MonFinish`.

A refused statement is an action of its own (`...Refused`, `...Moot`,
`RecoveryConflict`), because the code goes on differently from there. Faults —
a killed process, a storage error, a monitor or command that cannot be started —
are the actions that conjoin `Fault`; `MaxFaults` bounds their number for TLC.

Abstractions of `Lifecycle`, and why they are sound for its properties:

- One clock, never going back, stands for the wall clock and the elapsed clock.
  Recovery and the monitor keep the reading they took (`wall`, `mon[r].clock`)
  and use it later, as the code does. A clock that is set back is in `Records`.
- Ticks are coarse, so two reruns may fall into one instant; `claim_run` then
  refuses the second as a duplicate. The code has milliseconds, where this is
  rare, not impossible.
- Which rows retention finds old enough is left open: any subset of the
  terminal rows of the jobs in `Aged`. `Records` has the cutoffs.
- The channel between IPC thread and loop is merged with the heap; a wake loads
  the job and queues it in one step. `SupervisorLoop` has the two threads.
- At most one supervisor runs. The runtime lock is to see to that: `RuntimeLock`
  shows when it does (`FirstIsOnly`); when it does not is described below.
- `SIGTERM` and `SIGKILL` reach the recorded command or nothing: `Command` has
  identities, groups and reuse. A command may ignore `SIGTERM`, end by itself,
  or end by the signal.

`RuntimeLock` has one action per system call on `supervisor.lock` and
`supervisor.sock`. A file is its inode and, for the lock, the identity in it
(`None` while it is not completely written); `proc[p]` is the program counter
and the local variables of `acquire`. A new file gets any free inode, because
file systems reuse them and `drop` goes by them. `UnixListener::bind` is bind and
then listen: a connection in between is refused.

`SupervisorLoop` keeps of time only its order (`"ahead"` becomes `"due"` at any
moment) and of a due execution only whether it fails. What a connection carries
is a wake, a request to shut down, or a stray: every frame `read_frame` refuses
and every silence it gives up on is one case, because the code treats them alike.

`Processes` is the part of the kernel the code depends on. A process id is free
once its process was reaped and nobody is left in the group of that number; start
tokens count from boot. `inspect` and `classify` are the code's; a zombie is dead
to the Linux inspector and alive to the one of macOS. `who` is not the kernel's:
it lets the properties tell a stranger from the command. `Command` adds the run's
row, the monitor from spawn to echo, one draining thread per stream over a pipe
of limited size, the command (which writes, forks, leaves its group, exits or
hangs) and a canceller with its comparison before each signal. `hurt` is a
history variable: the strangers that were signalled, their age and that of the
comparison. A signal that cannot be sent ends the cancellation (`SignalError`).
`echo_tty` is taken in its steps: an unreadable log of stdout leaves the terminal
alone, one of stderr is noticed after the text of stdout; the tail is what
`read_tail` leaves of a log; `sanitize_tail` may let it grow and cuts it again; a
terminal that does not take all ends the echo anywhere in a notice or a text.

`MonitorChildren` has the registry's lock, the two threads that take it, and the
set of pending signals: a signal that is pending already is not queued again.
`reap_ready` is one step per child that is waited for; a child of another owner
sends it into `reap_finished`.

`Opening`, `Service` and `Host` share `inv`: each atx process is an operation, a
program counter and its local variables. One step is one system call, one SQL
transaction or one `systemctl` or `launchctl` command; `Crash` ends a process
between any two and rolls back its transaction. `Host`'s initial states are a
fresh machine, or one with one thing out of the ordinary: a database of any
release, a directory that is not private or has no parent, a foreign unit, a lock
that is stale, half-written or foreign, an unreadable configuration, clock or
identity, a supervisor log that is not private, rows that recovery refuses.
Service operations may run at the same time, as nothing in the code prevents it;
the history variable `overlapped` records that two were underway at once. A
`systemctl` that a killed atx has started is taken to end with it. A supervisor
that was started serves unless its recovery refuses the rows; that it comes too
late for its client, or rejects the wake, is a fault. `healthy` and `sure` are
history variables that tie a submission to the report before it.

`Records` merges the writes that a compare-and-swap on the revision makes one
step or none, and keeps *when* the clock was read for them. Its timestamps have
the order of their text (`TextRank`): a whole second sorts after its own
fractions. `JobReadable` and `RunReadable` are what `rehydrate` and the row
decoders accept. A monitor ends with each outcome of `completion_outcome`, the
failed capture and the interruption among them, and history and jobs have a
retention each. `Queries` gives each management command a step per statement or
file it reads, and ids of two digits of which the first is a prefix. `cancel` is
its reads and its commits one by one: `CancelResolve`, `LatestActiveRun` (read
once, before the loop), `RequestCancel`, then `EndCancelled` for a job without a
run, or `CancelClaimed`, `EndUnstarted`, `AwaitRun` and `FinishCancel`. `ps` is
ordered by the text of the creation and the id, and refused above its maximum.

`Requests` is one process: a request is a command line and the world it meets. A
word carries the value behind its `=`. `Arguments` has the declarations of every
command and `normalize_management_order`, and models what clap does with them; a
line that asks for help or the version ends with 0. Either stream may be
unwritable: printing the submission then panics, and the boundary turns that into
70. The words of a duration are joined as text before they are parsed. A zone and
a directory have one canonical name, which is the one that is kept, whatever name
was typed. A zone of `Calendar` changes its offset once, which is enough for a
gap, a fold and a fold around midnight. Durations are sequences of numbers with
units; identifiers are numbers in a base, scaled down with their limits, so that
the overflow of the first digit happens; a timestamp is a day and a time of day,
which is what its text shows.

## Properties and runs

Passing runs:

- **cancel** — one job, one run, two cancellers, one fault, the clock standing
  still. `TypeOK`; `SignalAfterCommit` (no signal before the durable request,
  and the request is never lost afterwards); `ResultMeansCommandOver` (a run is
  succeeded only when its command exited with 0, and never failed while it
  runs); `RunHistory` (terminal runs stay, a committed cancellation is not taken
  back, only it leads to cancelled); `JobsEnd` (in behaviours without a fault,
  every one-shot job ends). Two cancellers are what it takes for one to commit
  while the other is between load and commit.
- **recovery** — of two jobs one is submitted: a one-shot job with run-latest that
  is run again, with two runs and two faults, or a recurring job with skip, two
  claims, four instants, one fault and retention. `AtMostOnce` (claims never exceed
  requests), `RowsAgree` (an active run belongs to a job that is underway, and is
  its only one: what `load_nonterminal` demands, or the next supervisor refuses to
  start; for a job that was run again it does not hold, see below),
  `WaitingIsOwned` (while the supervisor is up a waiting job is in the heap, in
  the batch, or has a waker on the way, unless that waker gave up or died),
  `TerminalJobStays`. Two faults let a recovery be interrupted as well.
- **threads** — the threads of a supervisor, by pairs that share nothing. Loop and
  IPC thread: two jobs, one of them always failing, a session supervisor with idle
  timeout, stop signals, a database that is busy, a failing accept and a socket
  that the loop cannot reach; either stray frames, or a client that wakes twice.
  `AckedIsOwned` (while the loop runs no wake is lost between the threads; a job
  may only be let go after its attempts are used up), `AckedIsStarted` (a failing
  job never holds up another), `LeavingEnds` (a loop that was left ends the
  process, unless `request_ipc_shutdown` could not reach the IPC thread: then the
  join may wait for ever). Main thread and signal worker: three monitors and a
  child of another owner. `NoExitMissed` (a worker that sleeps with no SIGCHLD
  pending has left no monitor unreaped), `MonitorsReaped` (every one that ends is
  reaped while the worker runs), `StopEnds` (the supervisor can always stop its
  worker). Three monitors let one be reaped, one be behind the same signal and one
  be between spawn and registration.
- **lock** — three supervisor processes, up to two killed at any step:
  `FirstIsOnly` (until one has stopped or been killed, one serves) and
  `SomebodyServes` (one or two that start after all others are gone, and race for
  their stale files, never both end refused; three can, which is why the property
  is about two). The history variable `racing` holds those that started since one
  started alone. Three is one that leaves stale files and two that race for them.
- **deadlines** — six jobs, two instants, every sequence of operations:
  `PositionsAgree` (index and vector match), `NextIsEarliest`,
  `ImplementsDeadlines` (refinement of `Deadlines`). Six entries make a heap of
  three levels in which a removal can move the last entry both ways; two
  instants make ties. A turn of `sift_up`, of `sift_down` and of `pop_due`'s loop
  is a step, and `Deadlines` takes the due jobs one by one, first the first, until
  none is left; nothing else happens in between, because the heap belongs to one
  thread. `PositionsAgree` holds also inside an operation, `NextIsEarliest` when
  no entry is being sifted.
- **command** — two process ids; a silent command with three processes per boot
  and one reboot on each platform, or a command that writes three bytes to each
  stream where a pipe holds one, a log two and the echo shows one.
  `SparesStrangers` (whoever a signal reaches is the command's, or came after the
  last comparison); `LogsAreHonest` (a capture without an error holds the
  beginning of the stream up to the cap, and the recorded truncation says exactly
  whether something is missing); `EchoAdmitsLoss` (a terminal that shows text of
  a stream was told before that its log stopped at the cap, and that the tail is
  shorter than the log, whichever log cannot be read and wherever the echo breaks
  off); `OutputNeverBlocks` (a full pipe is always drained, though the log is at
  its cap or cannot be written and whatever the other stream does);
  `KilledIsRecorded` (a cancellation that had to kill gets its run recorded,
  unless a process left the group and keeps the pipes open).
- **host** — two processes, two faults, three migrations, two attempts to see the
  creator's schema; the operations come in the combinations of `MCLoads`, so that
  saving jobs between reports and managing the service are explored apart.
  `MigratedOnce` (version and applied migrations always agree), `NoOrphanService`
  (the manager never knows a service whose unit file is gone, unless two service
  operations overlapped), `HealthyThenStored` (after a healthy report, and
  nothing failing or too slow since, a submission is saved and acknowledged; its
  exceptions are what the doctor does not look at: a missing parent of a
  directory, a half-written lock, a log that is not private, rows that recovery
  refuses, write-ahead logs before there is a database),
  `InspectionCreatesNothing` (a preview, list, report or uninstall makes no
  directory and no database), `InstallConverges` (a user who repeats install gets
  a running service, whatever failed or was killed before and whatever it left;
  the exceptions are `Hindered` (a directory that is not private, an uninstall,
  another service operation at the same time) and `Refuses` (a unit that is
  someone else's, half of one that racing installs put in place, or one's own
  from before a move; see `v_install`)).
- **queries** — up to two jobs and two runs per workload, of which two of each
  kind may share their prefix, half-second ticks, up to five of them, a retention
  of two for history and of three for jobs, one to two commands beside up to two
  starts of a supervisor, a killed monitor or a clock that is set back.
  `RowsReadable` (with a clock that is never set back, every row is read back, but
  for those of two writers that read the clock before they look the row up: a
  rerun, and recovery), `OutputIsWhole` (the output of a run that ended by
  itself is printed whole or marked as cut), `NewestFirst` (history is in order
  but for runs created in one second), `RetentionSparesTheYoung` (retention
  removes nothing that is not over and nothing younger than a second more than
  the retention).
- **requests** — about five thousand requests: command lines in every order of
  their words with values apart or behind `=`, lines that mean nothing or ask for
  help, streams that cannot be written, durations at their limits and in words of
  which one alone is none (`1 30s`), calendar times at six instants around a gap,
  a fold and a fold at midnight, layers of configuration with an edit between the
  two reads, executions at the limits of their sizes. `MeansWhatWasTyped` (the
  order of options and words that spell like commands do not change a line's
  meaning); `ExitTellsTruth` (what the exit code says of the database, the
  directory and the acknowledgement is so; 70 says that nothing is left only when
  both streams can be written); `DueAsAsked` (against `Denotes`, what the parts
  of a duration's text amount to, and a definition by what clocks in the zone
  read; words that spell no time make no job); `SavedAsConfigured` (the layers
  are applied in their order, and explicit output options outlive them);
  `EnvironmentAsAsked` (of a variable that is given several times the last one
  counts); `SavedIsReadable` (the row is read back as the same job, and the
  supervisor accepts the configuration too). TLC also evaluates two assumptions
  of `MCRequests` that the theorems have as premises: the words of every request
  spell the parts, the date and the time it asks for (`WordsSay`), and
  identifiers and durations are read back as they are printed (all identifiers;
  durations with each unit absent, present and at its limits).

Three runs show a disagreement between the code and what is said of it (details
in PROJECT.json, "findings"):

- **v_rows** — a canceller that saw no active run cancels the job directly
  while the supervisor claims its run: an active run under a cancelled job. The
  next recovery reports corruption and the supervisor does not come up
  (`cli/dispatch.rs:765`, `sqlite/reconcile.rs:98`).
- **v_retries** — one job that fails at every attempt, three attempts:
  `BrokenIsDropped`, what the comment at `supervisor/daemon.rs:403-407` says. The
  attempts are forgotten whenever the job is due (`264`), so it is queued again
  for ever.
- **v_install** — one process that installs, one fault, under the fairness of
  `Host`: `InstallAfterMove` (`cli.md:151-152`: "Run it again after moving
  either."). `installed` refuses one's own earlier unit as a foreign one, in
  install and in uninstall (`service/systemd.rs:72`).

### Behaviour a maintainer may want to know

What the models have, or reading the code for them showed, that no property
forbids because it does happen.

Supervision:

- Two supervisors that read the same stale lock: the second removes the lock, and
  then the socket, that the first has just made, and both serve
  (`supervisor/ipc.rs:183` and `116`; `supervisor/mod.rs:1`: "Single-instance
  scheduling supervisor."). A kill is not needed: an owner that stops between
  being read and being classified will do. `SingleInstance` in `RuntimeLock`
  states what fails.
- A supervisor killed between creating and writing its lock leaves one that
  every later start refuses as malformed, until it is removed by hand.
- Three supervisors that race for a stale lock can all end refused; the client's
  submission then returns exit 11.
- A wake that is accepted after the idle timeout ended the loop is acknowledged,
  and nobody will look at the job (`supervisor/loop_driver.rs:50`, against
  `architecture.md:94-97`).
- A loop that cannot connect to its own socket to stop the IPC thread goes on to
  the join all the same (`supervisor/daemon.rs:612-616`, `299`) and may wait there
  for ever; a service manager then takes it for running.
- A failed accept ends the IPC thread for good while the loop goes on
  (`supervisor/daemon.rs:314`): the supervisor executes what it has, and every
  later client finds it unreachable.
- When the elapsed clock fails while the loop runs, the reading of the start is
  used again (`supervisor/daemon.rs:250-258`).
- Supervisor and monitors take their configuration from the environment of
  whoever started the first of them.

Jobs and runs:

- A recurring job with run-latest: recovery runs the missed occurrence now and
  records the *next* slot as its own (`application/reconcile.rs:226`), so the
  next occurrence is refused as a duplicate and the job hangs in `starting`,
  although `reliability.md:25` says recurring jobs continue at the next anchored
  time.
- A run can be recorded as "cancelled before command start" (`cli/dispatch.rs:856`)
  although its command was started: the monitor records the identity after the
  spawn. It then kills the command (`MonMarkRefused`, `MarkRefused`).
- `RowsAgree` excepts jobs that were run again: after a fault, a monitor that
  stalls while its run is interrupted finishes the job of the newer run, because
  `finish_job` identifies the job and not the run (`run_monitor/mod.rs:81`). As
  long as the newer run is active no supervisor starts: `load_nonterminal` calls
  a database with an active run of a finished job corrupt. The theorem
  `RowsAgreeHolds` has exactly this as its premise: with `RerunsSettled`, and
  nobody who cancels, the rows agree whatever else fails.
- The clock of `atx run PREFIX` is read before the prefix is resolved
  (`cli/dispatch.rs:688`). Should the job it stood for be removed and another job
  with that prefix be created and end in between, `prepare_rerun` writes an
  update that precedes the creation, and no supervisor reads the row. Recovery does
  the same to a job without runs that was created and asked to be cancelled since
  recovery read the clock. Both are exceptions in `RowsReadable`.
- A job popped for one occurrence, which that occurrence's monitor finishes
  before the batch gets to it, is started at once for the next one:
  `execute_single_due_job` asks whether the job waits, not whether it is due.
- A spawn failure makes a recurring job `failed` for good
  (`supervisor/daemon.rs:547`).
- A job can be `cancelled` while its run is `succeeded`: a request that comes
  after the command exited wins for the job and not for the run.
- Recovery reads the clock before it loads the rows (`supervisor/daemon.rs:182`).
  A run whose monitor marks it in between is interrupted with an end before its
  start, and `Run::rehydrate` refuses it from then on: `history`, `show` and
  `output` fail on it. After the wall clock was set back, `prepare_rerun` can
  write a job row that no supervisor starts with.
- A job due in a second whose supervisor takes longer to start is marked missed
  by that supervisor's recovery although it was acknowledged.
- What `sanitize_tail` cuts of a text that has grown, because a malformed byte
  becomes three, is announced by no notice (`run_monitor/tty.rs:93`).
- A process of the group that ignores SIGTERM survives when the leader does not:
  the leader's death ends the cancellation. `terminate_and_wait` and
  `reap_failed_spawn` kill the leader alone.

Queries:

- `list` orders by id and cuts off, so that it shows the oldest jobs
  (`sqlite/management.rs:83`); `cli/args.rs:422` says "Show the twenty most recent
  jobs."
- Within one second `history` is not newest first (`sqlite/management.rs:123`;
  `cli.md:140`), and retention is off by as much. `history` lists active runs too.
- A prefix that matches one run and another job prints the run
  (`application/history.rs:46`).
- `rm --cancel PREFIX` resolves the prefix three times (`cli/dispatch.rs:676-682`).

Submission:

- The example `9:00` of `cli/args.rs:387` is refused by `parse_time`
  (`domain/calendar_syntax.rs:41`).
- `resolve_time_only` refuses a time that falls into today's gap even when it is
  over for today, and does not check that what it found is in the future: in a
  fold around midnight it is `Job::new` that refuses.
- `--capture-env` fails when the environment exports a name that is not an
  identifier.
- `atx 1 30s` is due in 130 seconds: the words are joined without a space
  (`cli/dispatch.rs:1222`).
- When stdout cannot be written, a submission panics after its job was stored and
  acknowledged, and ends with 70, the code of an internal error
  (`cli/dispatch.rs:942-947`, `cli/boundary.rs:16-23`).
- The configured zone is validated against the system's zone database and
  resolved against the bundled one.

The machine:

- A creator of the database that is killed before its schema is committed leaves
  a file of version 0 that every later command calls corrupt; one that takes
  longer than the attempts of its peers makes them report corruption.
- The doctor is healthy on a file system without write-ahead logs as long as
  there is no database, and looks neither at `supervisor.log` nor for the parents
  of the directories nor at whether recovery will accept the rows.
- Installing a service that is installed and stopped does not start it: the
  verification fails, the rollback removes it, and the next install succeeds.
- Service operations are not locked against each other. Two installs at a time
  share one temporary file, and one may put half a unit in place. An install's
  `enable --now` between another uninstall's `disable --now` and its removal of
  the unit file leaves an enabled service, running, whose unit file is gone
  (`service/systemd.rs:191-214`).

### Bounds

`MaxRuns`, `MaxReruns`, `MaxTime`, `MaxFaults` bound TLC's instances, each in
the guard of the one action it limits; the job, canceller and run sets are
small. The properties of `cancel` and `recovery` relate one job, its runs and the
processes at work on them, and processes of different jobs share nothing but the
execution's batch, so one job shows their interleavings; two runs are the fewest
with which the monitor of an older run can meet a newer one. The theorems below
remove the bounds for the properties they state. `SupervisorLoop` has two jobs
because its property is about one job's effect on another.

`Command`, `Host` and `Records` choose a workload (`load`) in the initial state
and keep to it: each workload gives the one case it is about the room it needs.
In `Command` the bounds are the bytes written, the processes started per boot and
the reboots; two process ids are enough for the command and one process that is
its child, or a stranger, or takes its id over after it was reaped. A log that
holds two bytes and an echo of one let the tail be shorter than the log with and
without the log being cut. In `Host`, two processes race for one database, and
two faults let a rollback fail as well. In `Records` the bounds are the ids, the
starts of a supervisor, the deaths of monitors, the steps of the clock and, per
workload, its last instant (`ends`, at most `MaxTime`); half-second ticks make
the two orders of timestamps differ. `MAX_MANAGEMENT_RESULTS` is three for a
thousand, the maximum of `ps` is one, `MaxNumber` and `MaxId` stand for the
largest u64 and u128.

Deadlock checking is off in the runs of `Lifecycle`, `SupervisorLoop`,
`RuntimeLock`, `Command`, `MonitorChildren` and `Queries` (processes that are
over are not started again): with every job over, every budget spent and the
clock at its bound the system really has nothing to do. In `Requests` a process
that ended stutters (`Finished`).

### Fairness

`Lifecycle`'s `FairSpec` assumes weak fairness of the clock; of the supervisor's
steps (a supervisor is started again: by the service manager, or by the next
command that needs one); of each canceller that was started and each monitor,
which are sequential processes; of each command's exit (`JobsEnd` is about
commands that end; atx has no execution timeout); and of a wake that keeps being
sent. Users, faults, time-outs and the idle exit are never forced.
`SupervisorLoop` assumes weak fairness of its two threads and of time. `Command`
assumes it of the monitor, of each draining thread, of a canceller that was
started and of the grace period; never of the command, which need not write, read
signals or end. `MonitorChildren` assumes it of both threads, and strong fairness
of the worker's taking the lock: the main thread holds the lock for one spawn and
sleeps between two, so a waiting worker finds it free again and again, and the
mutex does not pass it over for ever. `Host` assumes weak fairness of the steps
of each process that was started, strong fairness of a user who starts `service
install` while the service is not running (that is what `InstallConverges` and
`InstallAfterMove` are about), and that a manager that went away comes back.

## Proofs

The theorems hold for every set of jobs, runs and cancellers, every policy,
delay, interval, number of faults, process ids and children; they use the named
assumptions on the constants (`JobsAssumption`, `BoundsAssumption`,
`BackoffAssumption`, `LockAssumption`, `ChildrenAssumption`, `PidsAssumption`,
`CommandAssumption`, `CaptureAssumption`, `OpeningAssumption`, `LoopAssumption`,
`RecordsAssumption`, `HeapAssumption`, `TextsAssumption`, `PathsAssumption`,
`ZonesAssumption`, `RequestsAssumption`), which TLC evaluates in every run of a
module that extends theirs.

- `LifecycleProofs!TypeCorrect` — `Spec => []TypeOK`. `TypeOK` is not inductive:
  a canceller that adds one to the revision of the job it holds, a monitor that
  loads its run's job, an execution that lists a failed job all need their ids
  to be in the tables. `TypeInv` adds `Linked`: who works on a job or run holds
  an id that is there, an unclaimed row is empty, and the runs of cancellers and
  of sent signals have been claimed. `RunsKept` — every step but a claim leaves
  each run with its job — carries `Linked` through all steps that do not
  concern it.
- `LifecycleProofs!AtMostOnceHolds` — `Spec => []AtMostOnce`. The strengthening
  `Budget` says where an unspent request is: for every one-shot job,
  claims + (1 if it waits) + (1 if the execution is between `starting` and
  `claim_run`) never exceed the requests. `ExecStart` moves the 1 from the job
  to the execution, `ExecClaim` spends it; every other step only lets go of it
  (`BudgetKept`), because no one-shot transition leads back to waiting.
- `LifecycleProofs!RunHistoryHolds` — `Spec => RunHistory`, from the lemma that
  every writer moves a run along `run_transition` (`RunsMove`).
- `LifecycleProofs!SignalAfterCommitHolds` — `Spec => []SignalAfterCommit`, with
  `CommittedFirst` (a canceller about to signal has seen the commit), and from
  `RunsMove` that no run returns to starting or running.
- `LifecycleProofs!ResultMeansCommandOverHolds` — `Spec =>
  []ResultMeansCommandOver`. The strengthening says what those who are about to
  record a result know: a monitor at `record` has seen its command end with that
  result, no command is started once there is a result (`ResultOK`), and an
  execution that records a failure has spawned no monitor (`Unspawned`).
- `LifecycleProofs!TerminalJobStaysHolds` — `Spec => TerminalJobStays`. The
  transition table alone lets a recurring job go back to waiting; what keeps a
  finished one finished is the revision: a monitor loaded a job that was not over,
  and as long as the revision is the loaded one so is the state (`LoadedJob`).
  `JobMoves` carries this through every step: a job that moves gets a new
  revision, and none is created a second time.
- `LifecycleProofs!WaitingIsOwnedHolds` — `Spec => []WaitingIsOwned`. `Watched`
  extends the property to the phases in which it is not stated: while recovery
  runs, the plan or the rebuilt heap will have the job; a job that is popped goes
  from heap to batch to execution and, if that fails, to the failures that are
  queued again; whoever makes a job wait is from that step on its waker. A job
  with a run is never `scheduled` again (`AskedFirst`), so the wake of its monitor
  finds it waiting or over.
- `LifecycleProofs!RowsAgreeHolds` — `Spec /\ RerunsSettled => []AllRowsAgree`
  when nobody cancels, where `AllRowsAgree` is `RowsAgree` without its exception
  for jobs that were run again; `RowsAgreeWithoutReruns` — `Spec => [](RowsAgree
  /\ AllRowsAgree)` when moreover no job is run again, the case of the recurring
  job of run `recovery`. Both premises are needed: `v_rows` shows what a
  canceller does, and the stalled monitor above what a rerun does. That only a
  job underway has an active run is not inductive: a run that is over may still
  have a monitor that will move the job for it. `Busy` counts those in as long as
  they can, that is until the job has another revision, and `Agree` says that a
  job that waits has no busy run and one underway at most one. The rest follows
  those who hold a job without its lock: the execution between `starting` and the
  claim (`ExecAgrees`), and recovery, whose plan is still all there is when it is
  applied, because no run is claimed while no supervisor is up
  (`RecoveryAgrees`).
- `SupervisorProofs!AckedIsOwnedHolds` — `Spec => []AckedIsOwned`, from
  `LoopAssumption` (at least one attempt). The invariant follows a wake: it is
  saved in the channel before the client is told (`WakesAreSaved`, `ToldFirst`),
  one batch is in hand at a time (`OneBatch`), and what fails in it is queued
  again before the next is taken, unless its attempts are used up.

- `RuntimeLockProofs!FirstIsOnlyHolds` — `Spec => []FirstIsOnly`, for any number
  of processes and any reuse of inodes, from `LockAssumption`. The invariant
  `OneHolder` says that, as long as nobody went, the lock exists exactly while
  one process is past `create_new`, and the socket only while that process has
  bound it; `OthersRefused` that every other process has not started, is about
  to find the lock taken, or gave up, and that whoever is being classified is
  the holder, hence alive. It needs both: `Stale` is what would break
  `OneHolder`.

- `RuntimeLockProofs!SomebodyServesHolds` — `Spec => []SomebodyServes`, for any
  number of processes, of which one or two start after all others are gone. `Race`
  says what makes it so: alone, a process gets to serve (`Good`), and while two are
  on their way whatever may make one of them give way leaves the other able to
  serve (`Yields`), through every order in which they read, classify, remove and
  create the two files; a lock that was left incomplete dooms all (`Doomed`).
- `SupervisorProofs!NoExitMissedHolds` — `ChildrenSpec => []NoExitMissed`, for any
  monitors and other children, from `ChildrenAssumption`. `NoExitMissed` speaks of
  a worker that sleeps; `NothingOwed` extends it to one that has just reaped.
  That a reaping worker leaves nothing behind needs `Registered` (a monitor that
  is not reaped is in the registry, or the main thread holds it between spawn
  and insert) and `LockHeld` (so nobody is between the two while the worker
  reaps); that an exit is signalled at all needs `WorkerFirst` (no monitor is
  started before the signals are blocked).
- `CommandProofs!SparesStrangersHolds` — `Spec => []SparesStrangers`, for any
  process ids, loads and sizes. `Known` says of an identity that was read from
  the command: in its own boot, whoever now has its id and start token is the
  command. It is stable under `Moves`, what every step does to the process table
  within a boot, because new processes get new tokens; `Restart` makes it vacuous,
  because boots are counted. With `Table` (strangers lead groups of their own,
  tokens are not ahead of the clock), a comparison that says "alive" shows that
  the group's number belongs to the command, so every stranger that is in the
  group when the signal is sent came later (`Checked`).
- `CommandProofs!LogsAreHonestHolds` and `EchoAdmitsLossHolds` — `Spec =>
  []LogsAreHonest` and `Spec => []EchoAdmitsLoss`, for any cap, pipe and amount
  of output. `Output` is a conservation law: every byte the command wrote is in
  the log, counted as discarded, or still in the pipe, and nothing is discarded
  before the log is full. A capture that ends without an error has seen the end of
  the pipe, so nobody holds it any more and it stays empty (`SilentStays`): the
  three are then two, and the truncation that is recorded is exactly whether the
  second is there. `NoticesFirst` follows `echo_tty`: both notices are out, whole,
  before the first byte of a text is, so an echo that breaks off anywhere leaves no
  text without its notices.
- `HostProofs!MigratedOnceHolds` — `Spec => []MigratedOnce`, for any number of
  processes, crashes and migrations, from `OpeningAssumption`. `Behind` says that
  a process at `begin` or `migrate` holds a version below the target and not ahead
  of the file's, although it read it before its transaction. If it is behind, the
  first of its migrations is in the schema, so the transaction fails as a whole;
  if none of them is, the version it holds is the file's.
- `HostProofs!NoOrphanServiceHolds` — `Spec => []NoOrphanService`, for any number
  of processes and whichever steps fail or are the last of their process. `Alone`
  says that one process works on the service as long as no two were recorded to
  overlap; `FileFirst`, as long as that is so, that the unit file is there before
  the manager is told of it, that the manager has forgotten the service before
  the file is removed, and that launchd does not go away, so that after a failed
  `bootout` "not running" means not loaded.
- `HostProofs!InspectionCreatesNothingHolds` — `Spec =>
  InspectionCreatesNothing`, although many processes create things at the same
  time. `Places` says at which program counters a process that only looks can be:
  at none of those from which a directory or a database is made.
- `HostProofs!HealthyThenStoredHolds` — `Spec => []HealthyThenStored`. `Trusted`
  says that, while no fault has come since a healthy report, everything it looks
  at is in order and the database can be opened (`Usable`: there is none, it has
  the current schema, or its creator is about to commit it); `Drifts` that no step
  undoes this: configuration, clocks and identity stay, directories are only made.
  `Told` is the conclusion with its exceptions: a supervisor can be missing only
  where the lock, the runtime directory, the log or the rows keep it away.
- `QueriesProofs` first shows that every step of every process is a move of each
  row (`RunMoves`, `JobMoves`), of each monitor with its log (`MonMoves`) and of
  the running command (`CliMoves`), with the types they keep (`StepsMove`); the
  theorems are then about moves and no longer about thirty actions.
  - `OutputIsWholeHolds` — `Spec => []OutputIsWhole`. `Logged` says that an
    outcome of the command itself is in the row only when the monitor writes its
    log no more and has recorded whether it is cut; `Told` that what a reader has
    taken so far (row, truncation, file, in this order) is still so. A row that is
    deleted in between does no harm: its log stays. A canceller is the second
    writer of an outcome: it ends a run only when that has had its monitor
    (`Watched`) and gets no command any more (`Committed`).
  - `NewestFirstHolds` — `Spec => []NewestFirst`, from `TextRankOrder`: the order
    of the texts is that of the instants except within one second.
  - `RetentionSparesTheYoungHolds` — `Spec => RetentionSparesTheYoung`. What
    recovery has just ended it does not delete in the same step, because the
    retention is at least a day (`RecordsAssumption`) and the text is off by less
    than a second; the runs that go with a deleted job are over, because a startup
    that finds an active run of a job that is not underway is refused.
  - `RowsReadableHolds` — `Spec => []RowsReadable`. `Times` is the order of all
    instants while the clock is never set back. The part that crosses processes
    is `StartTimes`: what a supervisor that starts may interrupt was created
    before the clock it read, since no run is claimed while none serves. Where no
    such order holds, the writer leaves a row of a recognisable kind, which is what
    the exceptions of the property say.

- `DeadlineHeapProofs` — `Spec => []PositionsAgree`, `Spec => []NextIsEarliest` and
  the refinement `Spec => ImplementsDeadlines`. `HeapInv` says that the index is
  exact, that the vector is in heap order except between the entry at `index` and
  its parent (on the way up) or its children (on the way down), and that these
  children do not come before that parent (`Bypassed`), which is what a swap
  needs. `Change` is the case a test hardly reaches: whatever entry is put at
  whatever position of an ordered heap, `restore`'s one comparison finds the way
  it has to go. That the first entry is first (`RootFirst`) goes down the tree by
  the least position that would contradict it: the library's least-element fact
  about sets of naturals takes the place of induction. Each operation maps to its
  abstract one, each turn of a sifting loop to a stutter (`AbstractStep`). That the
  loops end is not stated: a turn halves `index` or at least doubles it, within
  the length of the vector.

- `RequestsProofs` — for any commands, configuration files and edits of them,
  environments, zones, clocks, texts and limits. The premise `LinesAreMeant`
  (parsing a line gives what was meant) is `MeansWhatWasTyped`, which stays with
  TLC.
  - `ExitTellsTruthHolds` — `Spec => []ExitTellsTruth`, whichever step fails.
    `Left` says what the command has left behind at each of its steps, the one
    that prints the submission and may panic included, `UnderService` that a
    durable job got past the check of the service.
  - `BuiltInvariant` is what the next three rest on: a job was built from the
    words as they were meant and from the configuration as it was read *last*,
    although it was read twice and the file may change in between.
  - `SavedAsConfiguredHolds` — `Spec => []SavedAsConfigured`, from what `apply`
    takes of its layers (`MergedIsConfigured`) and which fields the options may
    override (`Overridden`).
  - `SavedIsReadableHolds` — `Spec => []SavedIsReadable`, given that identifiers
    and durations are read back as printed; for timestamps
    that is proved (`TimestampReadBack`). Every execution that is accepted
    satisfies what its row is validated against (`ExecutionBuilt`,
    `ExecutionReadBack`), the shell and the terminal too, whose place in the size
    limit differs; and an override touches no field that is validated, so the
    supervisor accepts the layers that the command accepted (`SupervisorAccepts`).
  - `DueAsAskedHolds` — `Spec => []DueAsAsked`, given words that spell what is
    asked (`WordsSay`). That the parser makes of any text, however its parts are
    cut into words, the duration its parts denote is `DurationDenoted`: the loop
    of `from_str` exists as a function (`LoopExists`) and goes through the text
    part by part (`ReadNext`, `ReadThrough`), by the least part it would have got
    wrong (`LeastNatural`) in place of induction. A local time has at most two
    readings, so there is a first and a last (`FirstAndLast`), which is what
    `Pick` chooses (`Resolved`); when today's reading has passed, so has every
    other, except the later one of a fold that `--dst earlier` renounced
    (`TimeOnlyResolved`).

Only model-checked: the liveness properties (temporal reasoning under fairness is
beyond the prover); `MeansWhatWasTyped` and `EnvironmentAsAsked`, and the premise
of `RequestsProofs` that identifiers and durations are read back as printed,
which are about folds over words, pairs and digits of any number (what a
recursive definition computes for every input is beyond the prover as a rule;
what a parsed duration denotes is proved); `RowsAgree` with cancellers (`v_rows`:
it does not hold) or beside unsettled reruns; of `Queries`' types, that sequence
numbers are numbers (a maximum of a set, by induction).

## Not modelled

- The layout of tables and JSON (`cli/human.rs`, `cli/json.rs`, and of
  `cli/view.rs` all but the states and times a view takes from its row, which
  `JobView`, `RunView` and `ProcessView` have), help texts, completions, man pages
  and the wording of errors: no state, and no property is about them. What a
  command selects, refuses and reads is modelled.
- The text of systemd units and launchd property lists: a unit is ours, ours from
  before a move, or foreign.
- The bytes of IPC frames, of TOML and of `/proc`: reading comes to a value or to
  a refusal, which is modelled where the code goes on differently.
- Suspend and the elapsed clock's rounding to milliseconds; the limit of 10 000
  rows that recovery loads; the audit table `transitions`, which is only written.
- Mode bits and ownership of files are one property, private or not, and the
  checks for files that were substituted always succeed, because only atx
  touches its directories in the models.
- Code that only tests use.

## Plan

1. *Done:* the core — `Domain`, `Store`, `Supervisor`, `Monitor`, `Cli`,
   `Lifecycle` — with its runs; `SupervisorLoop`; `DeadlineHeap` against
   `Deadlines`; type correctness and three safety theorems; `RuntimeLock` with
   `FirstIsOnlyHolds`.
2. *Done:* processes, capture and group cancellation (`Command`), child reaping
   (`MonitorChildren`), database opening, service and doctor (`Host`), rows and
   queries (`Queries`), submission from its words to its exit code (`Requests`);
   the theorems `NoExitMissedHolds`, `SparesStrangersHolds`, `MigratedOnceHolds`
   and `NoOrphanServiceHolds`.
3. *Done:* theorems for every safety property that holds without a bound in
   `Lifecycle`, `SupervisorLoop`, `Command`, `Host` and `Queries`; the invariants
   and the refinement of `DeadlineHeap`.
4. *Done:* `SomebodyServes` for any number of processes, `RowsAgree` with its two
   premises, and the theorems of `Requests`.
5. *Done:* service operations that race, supervisors that refuse or come late,
   `cancel` in its steps, the echo in its steps, help and streams that cannot be
   written, durations joined as text, timestamps as text; the runs `v_retries` and
   `v_install`.
6. Left: properties for the hazards of PROJECT.json that have none. They describe
   what the code does; a property that forbids it is due when the code changes.
