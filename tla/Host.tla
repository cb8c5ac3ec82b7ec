--------------------------------- MODULE Host ---------------------------------
(***************************************************************************)
(* One user's machine: atx processes that submit and list jobs, ask the    *)
(* doctor and manage the service, over private directories, a              *)
(* configuration file, the database, the runtime lock and the service      *)
(* manager (src/cli/dispatch.rs, src/application/doctor.rs,                *)
(* src/infrastructure/paths/mod.rs, src/infrastructure/runtime/mod.rs).    *)
(***************************************************************************)
EXTENDS Opening, Service

CONSTANT
  Loads      \* sets of operations; in a behaviour the user keeps to one

VARIABLES
  load,      \* the operations of this behaviour
  dirs,      \* the state and the runtime directory
  host,      \* the configuration, the platform, and the supervisor's lock
  healthy,   \* one more than the faults at the last report, if healthy
  overlapped \* two service operations have been underway at a time

vars == <<load, inv, faults, db, svc, dirs, host, healthy, overlapped>>

(* orphan: absent, and so is its parent.                                   *)
DirState == {"absent", "orphan", "private", "insecure"}

(* live: with its socket; half: its owner was killed while writing it;     *)
(* log: supervisor.log is not there, or a private file; rows: the database *)
(* holds none that startup recovery refuses.                               *)
HostState == [config : BOOLEAN, clocks : BOOLEAN, identity : BOOLEAN, rows : BOOLEAN,
              lock : {"none", "live", "stale", "half", "insecure"}, log : BOOLEAN]

Checks == {"state directory", "runtime directory", "configuration", "SQLite", "clocks",
           "process identity", "supervisor"}

Op == {"submit", "durable", "dry_run", "list", "doctor", "install", "uninstall"}

Result == {"none", "stored", "unsupervised", "preview", "listed", "healthy", "unchanged",
           "changed", "rolled_back", "rollback_failed", "capability", "permission", "storage",
           "supervision", "usage", "internal", "killed"}

TypeOK ==
  /\ inv \in [Clis -> [op : Op \cup {"none"}, pc : ServicePc \cup
                         {"idle", "config", "dirs", "file", "prepare", "observe", "version",
                          "begin", "migrate", "opened", "acknowledge"},
                       cur : 0..(Target - 1), created : BOOLEAN, left : 0..Attempts,
                       fails : SUBSET Checks, res : Result, sure : 0..(MaxFaults + 1)]]
  /\ faults \in 0..MaxFaults
  /\ db \in Database
  /\ svc \in ServiceState
  /\ dirs \in [state : DirState, runtime : DirState]
  /\ host \in HostState
  /\ healthy \in 0..(MaxFaults + 1)
  /\ load \in Loads
  /\ overlapped \in BOOLEAN

(* At most one thing is out of the ordinary to begin with: of the service  *)
(* and the directories where the user installs, of the rest elsewhere.     *)
(* Durable jobs are saved in a database that is there.                     *)
Init ==
  /\ inv = [c \in Clis |-> NoInvocation]
  /\ faults = 0
  /\ healthy = 0
  /\ overlapped = FALSE
  /\ load \in Loads
  /\ OpeningInit
  /\ ServiceInit
  /\ dirs \in [state : DirState, runtime : DirState]
  /\ host \in HostState
  /\ db.file # "absent" \/ ~host.log => dirs.state = "private"
  /\ ~host.rows => db.file # "absent" /\ db.wal /\ host.log
  /\ Cardinality({i \in 1..6 :
        CASE i = 1 -> db.file # "absent" \/ dirs.state # "absent" \/ ~db.wal \/ ~host.log
          [] i = 2 -> dirs.runtime # "absent" \/ host.lock # "none"
          [] i = 3 -> svc.unit = "other"
          [] i = 4 -> ~host.config
          [] i = 5 -> ~host.clocks
          [] OTHER -> ~host.identity}) <= 1
  /\ host.lock # "none" <=> dirs.runtime = "private"
  /\ IF "install" \in load
     THEN /\ db = AtVersion(IF "durable" \in load THEN "plain" ELSE "absent",
                           IF "durable" \in load THEN Target ELSE 0)
          /\ host.log /\ host.config /\ host.clocks /\ host.identity
     ELSE svc.platform = "systemd" /\ svc.unit = "none"

(* ensure_private_dir: created without its parents, or as it should be.    *)
CanBePrivate(d) == dirs[d] \in {"absent", "private"}

(* NativeClock: both clocks can be read, and the boot they belong to.      *)
ClocksRead == host.clocks

open_or_create_private_append_log == host.log

(* start_session_supervisor makes the directories; the supervisor opens    *)
(* its log, replaces a stale lock and no other, needs to know itself, and  *)
(* gives the lock up again when recovery refuses the stored rows.          *)
CanStart == CanBePrivate("state") /\ CanBePrivate("runtime")

TakesLock ==
  /\ CanStart
  /\ open_or_create_private_append_log
  /\ host.lock \in {"none", "stale"}
  /\ host.identity

start_session_supervisor ==
  /\ dirs' = IF CanStart THEN [dirs EXCEPT !.state = "private", !.runtime = "private"] ELSE dirs
  /\ host' = IF TakesLock THEN [host EXCEPT !.lock = IF host.rows THEN "live" ELSE "none"]
             ELSE host

Others == UNCHANGED <<load, dirs, host, healthy, overlapped>>

ServiceOp == {"install", "uninstall"}

-------------------------------------------------------------------------------
(* A command line of the user; a process may be the first after a healthy  *)
(* report.                                                                 *)
Start(c, op) ==
  /\ At(c, "idle")
  /\ op \in load
  /\ inv' = [inv EXCEPT ![c] =
               [NoInvocation EXCEPT
                  !.op = op,
                  !.sure = CASE op = "doctor" -> faults + 1
                             [] op = "submit" /\ healthy = faults + 1 -> healthy
                             [] OTHER -> 0,
                  !.pc = CASE op \in {"submit", "durable", "dry_run", "list"} -> "config"
                           [] op \in {"install", "doctor"} -> "dirs"
                           [] OTHER -> "u_status"]]
  /\ overlapped' = (overlapped \/ (op \in ServiceOp /\ \E d \in Clis : inv[d].op \in ServiceOp))
  /\ UNCHANGED <<faults, db, svc, load, dirs, host, healthy>>

(* load_effective_config; then a submission reads the clocks and builds    *)
(* its job, asks for the service if the job is durable, and stops there if *)
(* it is a dry run.                                                        *)
Configure(c) ==
  LET op == inv[c].op
  IN  /\ At(c, "config")
      /\ CASE ~host.config -> Ends(c, "usage")
           [] host.config /\ op = "list" -> Goes(c, "file")
           [] host.config /\ op # "list" /\ ~ClocksRead -> Ends(c, "internal")
           [] host.config /\ ClocksRead /\ op = "durable" ->
                IF running THEN Goes(c, "dirs") ELSE Ends(c, "capability")
           [] host.config /\ ClocksRead /\ op = "dry_run" -> Ends(c, "preview")
           [] OTHER -> Goes(c, "dirs")
      /\ UNCHANGED <<faults, db, svc>> /\ Others

(* service install makes both directories, a submission the first.         *)
EnsureDirectories(c) ==
  LET needed == IF inv[c].op = "install" THEN {"state", "runtime"} ELSE {"state"}
  IN  /\ At(c, "dirs")
      /\ inv[c].op # "doctor"
      /\ IF \A d \in needed : CanBePrivate(d)
         THEN /\ dirs' = [d \in DOMAIN dirs |-> IF d \in needed THEN "private" ELSE dirs[d]]
              /\ Goes(c, IF inv[c].op = "install" THEN "i_status" ELSE "prepare")
         ELSE /\ Ends(c, "permission")
              /\ IF CanBePrivate("state")
                 THEN dirs' = [dirs EXCEPT !.state = "private"] ELSE UNCHANGED dirs
      /\ UNCHANGED <<load, faults, db, svc, host, healthy, overlapped>>

(* open_management and check_database open a database only if there is one. *)
LookForDatabase_Opens(c) ==
  /\ At(c, "file")
  /\ IF dirs.state = "private" \/ db.file # "absent" THEN Goes(c, "prepare")
     ELSE IF inv[c].op = "list" THEN Ends(c, "listed") ELSE Goes(c, "opened")
  /\ UNCHANGED <<faults, db, svc>> /\ Others

LookForDatabase(c) ==
  /\ At(c, "file")
  /\ IF db.file # "absent" THEN Goes(c, "prepare")
     ELSE IF inv[c].op = "list" THEN Ends(c, "listed") ELSE Goes(c, "opened")
  /\ UNCHANGED <<faults, db, svc>> /\ Others

(* The steps of Database::open.  A doctor that cannot open it goes on, but *)
(* its exit code is decided.                                               *)
OpenDatabase(c) ==
  /\ OpenStep(c)
  /\ UNCHANGED svc /\ Others

(* submit_job's create_job; list_jobs.                                     *)
UseDatabase(c) ==
  /\ At(c, "opened")
  /\ inv[c].op # "doctor"
  /\ IF inv[c].op = "list" THEN Ends(c, "listed") ELSE Goes(c, "acknowledge")
  /\ UNCHANGED <<faults, db, svc>> /\ Others

(* SessionAcknowledger: without an answer, a supervisor is started.  It    *)
(* may come too late, or reject the wake.                                  *)
Serving == host.lock = "live" \/ (svc.up /\ host.rows)

Acknowledge(c) ==
  /\ At(c, "acknowledge")
  /\ IF Serving THEN UNCHANGED <<dirs, host>> ELSE start_session_supervisor
  /\ \/ /\ Ends(c, IF Serving \/ (TakesLock /\ host.rows) THEN "stored" ELSE "unsupervised")
        /\ UNCHANGED faults
     \/ Ends(c, "unsupervised") /\ Fault
  /\ UNCHANGED <<load, db, svc, healthy, overlapped>>

-------------------------------------------------------------------------------
(* A directory that is not there yet is a warning, and so are a lock       *)
(* without a socket, one of a dead or unknown process, and a service that  *)
(* is not installed or not running.                                        *)
check_private_directory(d) == dirs[d] = "insecure"

check_supervisor == host.lock = "insecure"

(* build_doctor_report: directories and configuration ...                  *)
DoctorFirst_Exists(c) ==
  /\ At(c, "dirs")
  /\ inv[c].op = "doctor"
  /\ inv' = [inv EXCEPT ![c].pc = "file",
               ![c].fails = {x \in Checks : x = "configuration" /\ ~host.config}]
  /\ UNCHANGED <<faults, db, svc>> /\ Others

DoctorFirst(c) ==
  /\ At(c, "dirs")
  /\ inv[c].op = "doctor"
  /\ inv' = [inv EXCEPT ![c].pc = "file",
               ![c].fails =
                 {x \in Checks : \/ x = "state directory" /\ check_private_directory("state")
                                 \/ x = "runtime directory" /\ check_private_directory("runtime")
                                 \/ x = "configuration" /\ ~host.config}]
  /\ UNCHANGED <<faults, db, svc>> /\ Others

(* doctor_exit.                                                            *)
doctor_exit(fails) ==
  CASE fails = {} -> "healthy"
    [] "SQLite" \in fails -> "storage"
    [] "SQLite" \notin fails /\ "supervisor" \in fails -> "supervision"
    [] OTHER -> "permission"

(* ... then, after the database, clocks, process identity, the supervisor  *)
(* and the service, whose failures are warnings.                           *)
DoctorRest(c) ==
  LET fails == inv[c].fails \cup
                 {x \in Checks : \/ x = "clocks" /\ ~ClocksRead
                                 \/ x = "process identity" /\ ClocksRead /\ ~host.identity
                                 \/ x = "supervisor" /\ ClocksRead /\ check_supervisor}
  IN  /\ At(c, "opened")
      /\ inv[c].op = "doctor"
      /\ Ends(c, doctor_exit(fails))
      /\ healthy' = IF fails = {} THEN inv[c].sure ELSE 0
      /\ UNCHANGED <<load, faults, db, svc, dirs, host, overlapped>>

-------------------------------------------------------------------------------
ServiceOperation(c) ==
  /\ ServiceStep(c)
  /\ UNCHANGED db /\ Others

(* A process is killed.                                                    *)
Crash(c) ==
  /\ ~At(c, "idle")
  /\ Fault
  /\ RolledBack(c)
  /\ Ends(c, "killed")
  /\ svc' = Closed(c)
  /\ Others

(* A session supervisor ends, is killed, or is killed while it takes over. *)
SessionEnds ==
  /\ host.lock = "live"
  /\ \/ host' = [host EXCEPT !.lock = "none"] /\ UNCHANGED faults
     \/ \E lock \in {"stale", "half"} : host' = [host EXCEPT !.lock = lock] /\ Fault
  /\ UNCHANGED <<load, inv, db, svc, dirs, healthy, overlapped>>

(* What the manager and the user do on their own, where it matters.        *)
Outside ==
  /\ "install" \in load
  /\ Restarted \/ ServiceDown \/ ManagerGoes \/ ManagerComes \/ Moved
  /\ UNCHANGED db /\ Others

Step(c) ==
  \/ Configure(c) \/ EnsureDirectories(c) \/ LookForDatabase(c) \/ OpenDatabase(c)
  \/ UseDatabase(c) \/ Acknowledge(c) \/ DoctorFirst(c) \/ DoctorRest(c) \/ ServiceOperation(c)

Next ==
  \/ \E c \in Clis : Step(c) \/ Crash(c) \/ \E op \in Op : Start(c, op)
  \/ SessionEnds
  \/ Outside

(* Processes run on; the user installs again while it is not running, and  *)
(* the manager comes back.                                                 *)
Fairness ==
  /\ \A c \in Clis : WF_vars(Step(c))
  /\ SF_vars(~running /\ \E c \in Clis : Start(c, "install"))
  /\ WF_vars(ManagerComes /\ UNCHANGED db /\ Others)

Spec == Init /\ [][Next]_vars /\ Fairness

-------------------------------------------------------------------------------
(* Every migration is committed once, in order, whatever processes open    *)
(* the database together or die while they do: never half a schema, and    *)
(* never a version that says more or less than what has been applied.      *)
MigratedOnce ==
  \A m \in 1..Target : db.applied[m] = IF m <= db.version THEN 1 ELSE 0

(* As long as no two service operations were underway at a time, the       *)
(* manager never knows a service whose unit file is gone, whatever fails   *)
(* or is killed: it could start a supervisor that no uninstall would stop. *)
(* Two that race can leave one: an install's enable --now between another  *)
(* uninstall's disable --now and its remove_file.                          *)
NoOrphanService == ~overlapped => (svc.reg => svc.unit # "none")

(* After a healthy report, with nothing failing or too slow since, a       *)
(* submission is saved and acknowledged, by however many processes at a    *)
(* time: no check of the doctor overlooks what a submission needs.  Left   *)
(* out is what it does overlook: a directory whose parent is missing, a    *)
(* half-written lock, a log that is not private, rows that recovery        *)
(* refuses, and a file system without write-ahead logs as long as there is *)
(* no database.                                                            *)
HealthyThenStored ==
  \A c \in Clis :
     At(c, "idle") /\ inv[c].sure = faults + 1
       => \/ inv[c].res = "stored"
          \/ /\ inv[c].res = "unsupervised"
             /\ host.lock = "half" \/ dirs.runtime = "orphan" \/ ~host.log \/ ~host.rows
          \/ dirs.state = "orphan" \/ ~db.wal

(* Looking does not create: a preview, a list, a report or an uninstall    *)
(* makes no directory and no database.                                     *)
InspectionCreatesNothing ==
  [][\A c \in Clis :
        inv[c].op \in {"dry_run", "list", "doctor", "uninstall"} /\ inv'[c] # inv[c]
          => dirs' = dirs /\ (db.file = "absent" => db'.file = "absent")]_vars

(* What keeps the service from running: a directory that is not private,   *)
(* an uninstall, or another service operation at the same time.            *)
Hindered ==
  \/ \E d \in DOMAIN dirs : ~CanBePrivate(d)
  \/ \E c \in Clis : inv[c].op = "uninstall"
  \/ \E c, d \in Clis : c # d /\ {inv[c].op, inv[d].op} \subseteq ServiceOp

(* A user who repeats service install gets a running service, whatever     *)
(* failed or was killed before and whatever it left behind, unless it is   *)
(* hindered again and again or the unit is refused: someone else's, half   *)
(* of one that racing installs put in place, or one's own from before the  *)
(* binary or the state directory moved.                                    *)
InstallConverges == "install" \in load => []<>(running \/ Hindered \/ Refuses)

(* "Run it again after moving either" (docs/cli.md): repeated, install     *)
(* gives a running service after a move too.  It does not: installed       *)
(* refuses the old unit as foreign, in install and in uninstall.           *)
InstallAfterMove ==
  "install" \in load => []<>(running \/ Hindered \/ svc.unit \in {"part", "other"})

===============================================================================
