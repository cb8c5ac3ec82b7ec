------------------------------- MODULE Command -------------------------------
(***************************************************************************)
(* One run's command: started and watched by its monitor                   *)
(* (src/infrastructure/process/spawn.rs, src/run_monitor/lifecycle.rs),    *)
(* its output captured by two threads (capture.rs) and echoed (tty.rs),    *)
(* its process group signalled by atx cancel                               *)
(* (src/infrastructure/process/cancel.rs, src/application/cancel.rs).      *)
(* Process ids are reused, the command starts processes of its own that    *)
(* hold its pipes open, and the machine may be started again.              *)
(***************************************************************************)
EXTENDS Processes, Capture, Domain

CONSTANTS
  Attempts,    \* INSPECTION_ATTEMPTS
  PipeSize,    \* how much a pipe holds
  Loads        \* one behaviour's platform and bounds: the bytes the command writes,
               \* the processes started per boot, and the reboots

ASSUME CommandAssumption ==
  /\ {Attempts, PipeSize} \subseteq Nat \ {0}
  /\ Loads \subseteq [platform : {"linux", "macos"}, output : Nat, ticks : Nat, boots : Nat]

Streams == {"stdout", "stderr"}

VARIABLES
  load,   \* the bounds of this behaviour, chosen at its start
  row,    \* the run's row: its state and the command's recorded identity
  mon,    \* the monitor: program counter, inspection attempts left, child
  exit,   \* how the command ended: "none", "ok" or "bad"
  pipe,   \* the bytes in each pipe, and whether its reading end is open
  made,   \* the bytes the command wrote to each stream
  cap,    \* the capture of each stream
  tty,    \* what was echoed, or None
  can,    \* the canceller
  hurt    \* the strangers signalled so far: their age, and that of the check

cmdVars == <<row, mon, exit, pipe, made, cap, tty, can, hurt>>
vars == <<load, procVars, cmdVars>>

MonPc == {"spawn", "inspect", "mark", "capture", "record", "echo", "over", "dead"}
CanPc == {"idle", "check", "term", "grace", "last", "kill", "over"}
CancellationResult == {"none", "already_dead", "identity_changed", "terminated", "killed", "error"}

NoCanceller == [pc |-> "idle", seen |-> 0, late |-> FALSE, result |-> "none"]

TypeOK ==
  /\ load \in Loads
  /\ ProcessesTypeOK
  /\ row \in [state : RunState, id : Identity \cup {None}]
  /\ mon \in [pc : MonPc, left : 0..Attempts, child : Pids \cup {None},
              id : Identity \cup {None}, out : RunOutcome, watched : BOOLEAN]
  /\ exit \in {"none", "ok", "bad"}
  /\ pipe \in [Streams -> [buf : 0..PipeSize, open : BOOLEAN]]
  /\ made \in [Streams -> 0..load.output]
  /\ cap \in [Streams -> StreamCapture]
  /\ tty \in [at_cap : BOOLEAN, limited : BOOLEAN, stdout : Nat, stderr : Nat]
               \cup {None}
  /\ can \in [pc : CanPc, seen : Nat, late : BOOLEAN, result : CancellationResult]
  /\ hurt \subseteq [born : Nat, seen : Nat]

Init ==
  /\ load \in Loads
  /\ ProcessesInit
  /\ row = [state |-> "starting", id |-> None]
  /\ mon = [pc |-> "spawn", left |-> Attempts, child |-> None, id |-> None,
            out |-> "failure", watched |-> FALSE]
  /\ exit = "none"
  /\ pipe = [s \in Streams |-> [buf |-> 0, open |-> TRUE]]
  /\ made = [s \in Streams |-> 0]
  /\ cap = [s \in Streams |-> NewCapture]
  /\ tty = None
  /\ can = NoCanceller
  /\ hurt = {}

Leaders == {p \in Pids : Alive(p) /\ proc[p].who = "command"}

(* Who keeps the pipes open for writing.                                   *)
Holders == {p \in Pids : Alive(p) /\ proc[p].who \in {"command", "child"}}

Shut == [s \in Streams |-> [buf |-> 0, open |-> FALSE]]

(* What becomes of the processes of a set that are killed: the command     *)
(* waits for its monitor as a zombie, every other is reaped by init.       *)
Killed(victims) ==
  [p \in Pids |-> IF p \notin victims \/ ~Alive(p) THEN proc[p]
                  ELSE IF proc[p].who = "command" /\ mon.pc # "dead"
                       THEN [proc[p] EXCEPT !.st = "zombie"] ELSE Gone]

ExitAfter(victims) == IF Leaders \cap victims # {} THEN "bad" ELSE exit

(* record_run_terminal, when the run may still end that way.               *)
Recorded(out) ==
  LET to == complete_run(row.state, out)
  IN  IF to = "illegal" THEN row ELSE [row EXCEPT !.state = to]

-------------------------------------------------------------------------------
(* The monitor.                                                            *)

(* create_run_artifacts, the monitor's own identity, or the spawn itself   *)
(* fails: the run is recorded as failed.                                   *)
SpawnError ==
  /\ mon.pc = "spawn"
  /\ mon' = [mon EXCEPT !.pc = "record"]
  /\ pipe' = Shut
  /\ UNCHANGED <<procVars, row, exit, made, cap, tty, can, hurt>>

(* Command::spawn with piped output, in a process group of its own.        *)
Spawn ==
  /\ mon.pc = "spawn"
  /\ tick < load.ticks
  /\ \E p \in Pids : /\ Fork(p, p, "command")
                     /\ mon' = [mon EXCEPT !.pc = "inspect", !.child = p]
  /\ UNCHANGED <<row, exit, pipe, made, cap, tty, can, hurt>>

(* reap_failed_spawn: kill and wait for the child, and close its pipes.    *)
reap_failed_spawn ==
  /\ proc' = [proc EXCEPT ![mon.child] = Gone]
  /\ exit' = ExitAfter({mon.child})
  /\ pipe' = Shut
  /\ UNCHANGED <<boot, tick>>

(* The inspection of the new child misses it, and is tried again.          *)
InspectRetry ==
  /\ mon.pc = "inspect"
  /\ mon.left > 1
  /\ mon' = [mon EXCEPT !.left = @ - 1]
  /\ UNCHANGED <<procVars, row, exit, pipe, made, cap, tty, can, hurt>>

(* It misses it for good, it fails, or the child is not in a group of its  *)
(* own any more.                                                           *)
InspectError ==
  /\ mon.pc = "inspect"
  /\ reap_failed_spawn
  /\ mon' = [mon EXCEPT !.pc = "record", !.left = Attempts]
  /\ UNCHANGED <<row, made, cap, tty, can, hurt>>

Inspect ==
  /\ mon.pc = "inspect"
  /\ inspect(mon.child) # None
  /\ inspect(mon.child).group = mon.child
  /\ mon' = [mon EXCEPT !.pc = "mark", !.left = Attempts, !.id = inspect(mon.child)]
  /\ UNCHANGED <<procVars, row, exit, pipe, made, cap, tty, can, hurt>>

(* mark_run_running.                                                       *)
Mark ==
  /\ mon.pc = "mark"
  /\ row.state = "starting"
  /\ row' = [state |-> "running", id |-> mon.id]
  /\ mon' = [mon EXCEPT !.pc = "capture", !.id = None, !.watched = TRUE]
  /\ UNCHANGED <<procVars, exit, pipe, made, cap, tty, can, hurt>>

(* ... refused: terminate_and_wait, and the monitor ends.                  *)
MarkRefused ==
  /\ mon.pc = "mark"
  /\ row.state # "starting"
  /\ reap_failed_spawn
  /\ mon' = [mon EXCEPT !.pc = "over"]
  /\ UNCHANGED <<row, made, cap, tty, can, hurt>>

(* The two threads of capture_streams.                                     *)
Drain_OneByOne(s) ==
  /\ mon.pc = "capture"
  /\ ~cap[s].done
  /\ s = "stderr" => cap["stdout"].done
  /\ \E read \in 1..pipe[s].buf : \E c \in Chunk(cap[s], read) :
       /\ cap' = [cap EXCEPT ![s] = c]
       /\ pipe' = [pipe EXCEPT ![s].buf = @ - read]
  /\ UNCHANGED <<procVars, row, mon, exit, made, tty, can, hurt>>

Drain(s) ==
  /\ mon.pc = "capture"
  /\ ~cap[s].done
  /\ \E read \in 1..pipe[s].buf : \E c \in Chunk(cap[s], read) :
       /\ cap' = [cap EXCEPT ![s] = c]
       /\ pipe' = [pipe EXCEPT ![s].buf = @ - read]
  /\ UNCHANGED <<procVars, row, mon, exit, made, tty, can, hurt>>

EndOfStream(s) ==
  /\ mon.pc = "capture"
  /\ ~cap[s].done
  /\ pipe[s].buf = 0
  /\ Holders = {}
  /\ \E c \in AtEnd(cap[s]) : cap' = [cap EXCEPT ![s] = c]
  /\ UNCHANGED <<procVars, row, mon, exit, pipe, made, tty, can, hurt>>

ReadError(s) ==
  /\ mon.pc = "capture"
  /\ ~cap[s].done
  /\ cap' = [cap EXCEPT ![s] = OnReadError(@)]
  /\ pipe' = [pipe EXCEPT ![s] = [buf |-> 0, open |-> FALSE]]
  /\ UNCHANGED <<procVars, row, mon, exit, made, tty, can, hurt>>

(* Both streams are done: wait for the command, and decide on the outcome. *)
Wait ==
  /\ mon.pc = "capture"
  /\ \A s \in Streams : cap[s].done
  /\ proc[mon.child].st = "zombie"
  /\ proc' = [proc EXCEPT ![mon.child] = Gone]
  /\ mon' = [mon EXCEPT !.pc = "record",
                        !.out = completion_outcome(exit, \E s \in Streams : cap[s].error, FALSE,
                                                   row.state = "cancel_requested")]
  /\ UNCHANGED <<boot, tick, row, exit, pipe, made, cap, tty, can, hurt>>

Record ==
  /\ mon.pc = "record"
  /\ row' = Recorded(mon.out)
  /\ mon' = [mon EXCEPT !.pc = IF mon.watched THEN "echo" ELSE "over"]
  /\ UNCHANGED <<procVars, exit, pipe, made, cap, tty, can, hurt>>

(* The echo: the job has no terminal, it cannot be opened or the log of    *)
(* stdout not be read; or it receives what echo_tty can write.             *)
EchoTty ==
  /\ mon.pc = "echo"
  /\ mon' = [mon EXCEPT !.pc = "over"]
  /\ \/ UNCHANGED tty
     \/ \E t \in Terminal : open_tty(t) /\ tty' \in echo_tty(cap["stdout"], cap["stderr"])
  /\ UNCHANGED <<procVars, row, exit, pipe, made, cap, can, hurt>>

(* A monitor that dies leaves the command to init and closes its pipes.    *)
MonitorCrash ==
  /\ mon.pc \notin {"over", "dead"}
  /\ mon' = [mon EXCEPT !.pc = "dead", !.left = Attempts, !.id = None]
  /\ proc' = [p \in Pids |-> IF proc[p].st = "zombie" THEN Gone ELSE proc[p]]
  /\ pipe' = Shut
  /\ UNCHANGED <<boot, tick, row, exit, made, cap, tty, can, hurt>>

-------------------------------------------------------------------------------
(* The command, the processes it starts, and everybody else's.             *)

Write(s) ==
  /\ Leaders # {}
  /\ made["stdout"] + made["stderr"] < load.output
  /\ pipe[s].open /\ pipe[s].buf < PipeSize
  /\ pipe' = [pipe EXCEPT ![s].buf = @ + 1]
  /\ made' = [made EXCEPT ![s] = @ + 1]
  /\ UNCHANGED <<procVars, row, mon, exit, cap, tty, can, hurt>>

(* The command ends, by itself or by a signal such as SIGPIPE.             *)
CommandExit ==
  /\ Leaders # {}
  /\ \E e \in {"ok", "bad"} : exit' = e
  /\ proc' = Killed(Leaders)
  /\ UNCHANGED <<boot, tick, row, mon, pipe, made, cap, tty, can, hurt>>

CommandForks ==
  /\ tick < load.ticks
  /\ \E p \in Leaders, q \in Pids : Fork(q, proc[p].group, "child")
  /\ UNCHANGED cmdVars

(* setpgid or setsid.                                                      *)
Regroups ==
  /\ \E p \in Holders :
       /\ proc[p].group \notin {None, p} \/ proc[p].who = "command"
       /\ proc' = [proc EXCEPT ![p].group = None]
  /\ UNCHANGED <<boot, tick, cmdVars>>

StrangerStarts ==
  /\ tick < load.ticks
  /\ \E p \in Pids : Fork(p, p, "stranger")
  /\ UNCHANGED cmdVars

OtherExits ==
  /\ \E p \in Pids : /\ Alive(p) /\ proc[p].who \in {"child", "stranger"}
                     /\ proc' = [proc EXCEPT ![p] = Gone]
  /\ UNCHANGED <<boot, tick, cmdVars>>

Reboot ==
  /\ boot < load.boots
  /\ Restart
  /\ mon' = [mon EXCEPT !.pc = IF @ = "over" THEN @ ELSE "dead", !.left = Attempts, !.id = None]
  /\ pipe' = Shut
  /\ can' = NoCanceller
  /\ UNCHANGED <<row, exit, made, cap, tty, hurt>>

-------------------------------------------------------------------------------
(* The canceller: cancel_claimed_run and cancel_validated_group.           *)

CancelBeforeSpawn ==
  /\ can.pc = "idle"
  /\ row.state = "starting"
  /\ row' = [row EXCEPT !.state = "cancelled"]
  /\ can' = [can EXCEPT !.pc = "over"]
  /\ UNCHANGED <<procVars, mon, exit, pipe, made, cap, tty, hurt>>

CancelCommit ==
  /\ can.pc = "idle"
  /\ row.state \in {"running", "cancel_requested"}
  /\ row' = [row EXCEPT !.state = "cancel_requested"]
  /\ can' = [can EXCEPT !.pc = "check"]
  /\ UNCHANGED <<procVars, mon, exit, pipe, made, cap, tty, hurt>>

CanEnds(result) == can' = [NoCanceller EXCEPT !.pc = "over", !.result = result]

(* One classification of the recorded identity, at each place it is made:  *)
(* what a dead command means there, and where a living one leads.          *)
Classify(pc, dead, next) ==
  /\ can.pc = pc
  /\ CASE classify(load.platform, row.id) = "dead"   -> CanEnds(dead)
       [] classify(load.platform, row.id) = "reused" -> CanEnds("identity_changed")
       [] OTHER                       -> can' = [can EXCEPT !.pc = next, !.seen = tick]
  /\ UNCHANGED <<procVars, row, mon, exit, pipe, made, cap, tty, hurt>>

FirstCheck == Classify("check", "already_dead", "term")

GraceCheck == Classify("grace", "terminated", IF can.late THEN "last" ELSE "grace")

LastCheck == Classify("last", "terminated", "kill")

(* The inspection fails for another reason.                                *)
CheckError ==
  /\ can.pc \in {"check", "grace", "last"}
  /\ CanEnds("error")
  /\ UNCHANGED <<procVars, row, mon, exit, pipe, made, cap, tty, hurt>>

GracePasses ==
  /\ can.pc = "grace"
  /\ can' = [can EXCEPT !.late = TRUE]
  /\ UNCHANGED <<procVars, row, mon, exit, pipe, made, cap, tty, hurt>>

(* kill_process_group reaches whoever is in the group now.                 *)
Struck(g) ==
  hurt' = hurt \cup {[born |-> proc[p].token, seen |-> can.seen] :
                        p \in {q \in Members(g) : proc[q].who = "stranger"}}

(* SIGTERM, which a process may survive: to end by it is to exit.          *)
Terminate ==
  /\ can.pc = "term"
  /\ IF Members(row.id.group) = {} THEN CanEnds("already_dead")
     ELSE can' = [can EXCEPT !.pc = "grace"]
  /\ Struck(row.id.group)
  /\ UNCHANGED <<procVars, row, mon, exit, pipe, made, cap, tty>>

KillGroup_LeaderOnly ==
  /\ can.pc = "kill"
  /\ CanEnds(IF Members(row.id.group) = {} THEN "terminated" ELSE "killed")
  /\ Struck(row.id.group)
  /\ proc' = Killed({row.id.pid})
  /\ exit' = ExitAfter({row.id.pid})
  /\ UNCHANGED <<boot, tick, row, mon, pipe, made, cap, tty>>

KillGroup ==
  /\ can.pc = "kill"
  /\ CanEnds(IF Members(row.id.group) = {} THEN "terminated" ELSE "killed")
  /\ Struck(row.id.group)
  /\ proc' = Killed(Members(row.id.group))
  /\ exit' = ExitAfter(Members(row.id.group))
  /\ UNCHANGED <<boot, tick, row, mon, pipe, made, cap, tty>>

(* kill_process_group fails with another error than "no such process", and *)
(* signals nobody: CancellationError::Signal.                              *)
SignalError ==
  /\ can.pc \in {"term", "kill"}
  /\ CanEnds("error")
  /\ UNCHANGED <<procVars, row, mon, exit, pipe, made, cap, tty, hurt>>

-------------------------------------------------------------------------------
MonitorNext ==
  \/ SpawnError \/ Spawn \/ InspectRetry \/ InspectError \/ Inspect
  \/ Mark \/ MarkRefused \/ Wait \/ Record \/ EchoTty

CaptureNext(s) == Drain(s) \/ EndOfStream(s)

CancelNext ==
  \/ FirstCheck \/ GraceCheck \/ LastCheck \/ CheckError \/ Terminate \/ KillGroup
  \/ SignalError

OthersNext ==
  \/ \E s \in Streams : Write(s)
  \/ CommandExit \/ CommandForks \/ Regroups \/ StrangerStarts \/ OtherExits

Next ==
  /\ \/ MonitorNext
     \/ \E s \in Streams : CaptureNext(s) \/ ReadError(s)
     \/ CancelBeforeSpawn \/ CancelCommit \/ CancelNext \/ GracePasses
     \/ OthersNext
     \/ MonitorCrash \/ Reboot
  /\ UNCHANGED load

Spec == Init /\ [][Next]_vars

(* Monitor, its capture threads and a canceller that was started go on,    *)
(* and time passes; the command need never end.                            *)
FairSpec ==
  /\ Spec
  /\ WF_vars(MonitorNext /\ UNCHANGED load)
  /\ \A s \in Streams : WF_vars(CaptureNext(s) /\ UNCHANGED load)
  /\ WF_vars(CancelNext /\ UNCHANGED load)
  /\ WF_vars(GracePasses /\ UNCHANGED load)

-------------------------------------------------------------------------------
(* A signal never reaches a process that has nothing to do with the        *)
(* command and was there when the identity was last compared: reboots,     *)
(* reused process ids and the whole grace period are covered by the        *)
(* comparison made right before each kill_process_group                    *)
(* (cancel.rs:19, 48).  A stranger that takes the id over between the      *)
(* comparison and the signal is beyond what the code can see.              *)
SparesStrangers == \A h \in hurt : h.born > h.seen

(* When the capture of a run ended without an error, its logs hold the     *)
(* beginning of each stream up to the cap, and the truncation noted in the *)
(* run's row (record_log_truncation) says exactly whether something is     *)
(* missing.                                                                *)
LogsAreHonest ==
  (mon.watched /\ mon.pc \in {"record", "echo", "over"}) =>
     \A s \in Streams :
        ~cap[s].error => /\ cap[s].written = Least(made[s], Cap)
                         /\ truncated(cap[s]) <=> made[s] > cap[s].written

(* A terminal that shows text of a stream was told before what of it is    *)
(* left out: by one notice of echo_tty when the log stopped at the cap, by *)
(* the other when the tail is shorter than the log, whichever stream is    *)
(* short, whichever log cannot be read and wherever the echo breaks off.   *)
(* What sanitize_tail cuts of a text that has grown is told by neither.    *)
EchoAdmitsLoss ==
  (tty # None /\ \A s \in Streams : ~cap[s].error) =>
     \A s \in Streams :
        tty[s] > 0 => /\ made[s] > Cap => tty.at_cap
                      /\ Least(made[s], Cap) > EchoLimit => tty.limited

(* A full pipe is drained although its log has reached the cap or cannot   *)
(* be written, and whatever the other stream does: a command never blocks  *)
(* for ever on its output while its monitor lives (drain_stream).          *)
OutputNeverBlocks ==
  \A s \in Streams :
     (pipe[s].open /\ pipe[s].buf = PipeSize) ~> ~(pipe[s].open /\ pipe[s].buf = PipeSize)

(* A cancellation that had to kill gets its run recorded: no process of    *)
(* the group is left to hold the pipes open and keep the monitor waiting.  *)
(* A process that left the group beforehand may.                           *)
KilledIsRecorded ==
  (can.result = "killed" /\ \A p \in Holders : proc[p].group = row.id.group)
     ~> mon.pc \in {"over", "dead"}
===============================================================================
