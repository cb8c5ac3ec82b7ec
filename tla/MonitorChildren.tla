---------------------------- MODULE MonitorChildren ----------------------------
(***************************************************************************)
(* The supervisor's own children: monitors registered under a lock by the  *)
(* main thread, and reaped by the signal worker when SIGCHLD says so       *)
(* (src/supervisor/children.rs, and the signal worker of daemon.rs).  A    *)
(* signal that is pending already is not queued again, so one SIGCHLD may  *)
(* stand for several exits; other code of the process may have children of *)
(* its own, whose status the worker must not take.                         *)
(***************************************************************************)
EXTENDS Naturals, FiniteSets

CONSTANTS
  Monitors,  \* the monitors the supervisor may start
  Others,    \* children that somebody else in the process owns
  None       \* nobody, no signal

ASSUME ChildrenAssumption ==
  Monitors \cap Others = {} /\ None \notin Monitors \cup {"main", "worker"}

Kids == Monitors \cup Others

VARIABLES
  kid,       \* each child: "none", "alive", "zombie" or "gone"
  children,  \* the registry of monitors
  lock,      \* who holds the registry's lock
  pending,   \* the blocked signals that are pending
  main,      \* the main thread: program counter, and the monitor in hand
  worker,    \* the signal worker: program counter, and the signal in hand
  shutdown   \* whether a Shutdown event was sent

childrenVars == <<kid, children, lock, pending, main, worker, shutdown>>

(* SIGTERM and SIGINT stop the supervisor; SIGCHLD is waited for as well.  *)
stop_signal_set == {"term"}

supervisor_signal_set == stop_signal_set \cup {"chld"}

TypeOK ==
  /\ kid \in [Kids -> {"none", "alive", "zombie", "gone"}]
  /\ children \subseteq {k \in Monitors : kid[k] \in {"alive", "zombie"}}
  /\ lock \in {"main", "worker", None}
  /\ pending \subseteq supervisor_signal_set
  /\ main \in [pc : {"boot", "threads", "loop", "locked", "insert", "stop", "join", "over"},
               kid : Monitors \cup {None}]
  /\ worker \in [pc : {"none", "sigwait", "lock", "reap", "decide", "over"},
                 got : supervisor_signal_set \cup {None}]
  /\ shutdown \in BOOLEAN

ChildrenInit ==
  /\ kid = [k \in Kids |-> "none"]
  /\ children = {}
  /\ lock = None
  /\ pending = {}
  /\ main = [pc |-> "boot", kid |-> None]
  /\ worker = [pc |-> "none", got |-> None]
  /\ shutdown = FALSE

Zombies == {k \in Kids : kid[k] = "zombie"}

MainGoes(pc) == main' = [pc |-> pc, kid |-> None]

-------------------------------------------------------------------------------
(* run_session_supervisor: the signals are blocked and the worker started  *)
(* before any other thread, ...                                            *)
StartWorker ==
  /\ main.pc = "boot"
  /\ MainGoes("threads")
  /\ worker' = [pc |-> "sigwait", got |-> None]
  /\ UNCHANGED <<kid, children, lock, pending, shutdown>>

StartError ==
  /\ main.pc = "boot"
  /\ MainGoes("over")
  /\ UNCHANGED <<kid, children, lock, pending, worker, shutdown>>

(* ... then the IPC thread; without it the worker is stopped again.        *)
StartIpc ==
  /\ main.pc = "threads"
  /\ MainGoes("loop") \/ MainGoes("stop")
  /\ UNCHANGED <<kid, children, lock, pending, worker, shutdown>>

(* configure_supervisor_signals blocks the signals; until then a stop      *)
(* signal ends the process and SIGCHLD is ignored.                         *)
Blocked == IF worker.pc = "none" THEN {} ELSE supervisor_signal_set

(* MonitorChildren::spawn: the lock is held from before the spawn until    *)
(* the child is registered.                                                *)
Lock_NotHeld ==
  /\ main.pc = "loop"
  /\ ~shutdown
  /\ MainGoes("locked")
  /\ UNCHANGED <<kid, children, lock, pending, worker, shutdown>>

Lock ==
  /\ main.pc = "loop"
  /\ ~shutdown
  /\ lock = None
  /\ lock' = "main"
  /\ MainGoes("locked")
  /\ UNCHANGED <<kid, children, pending, worker, shutdown>>

Spawn(k) ==
  /\ main.pc = "locked"
  /\ kid[k] = "none"
  /\ kid' = [kid EXCEPT ![k] = "alive"]
  /\ main' = [pc |-> "insert", kid |-> k]
  /\ UNCHANGED <<children, lock, pending, worker, shutdown>>

Unlocked == lock' = IF lock = "main" THEN None ELSE lock

SpawnError_KeepsLock ==
  /\ main.pc = "locked"
  /\ MainGoes("loop")
  /\ UNCHANGED <<kid, children, lock, pending, worker, shutdown>>

SpawnError ==
  /\ main.pc = "locked"
  /\ MainGoes("loop")
  /\ Unlocked
  /\ UNCHANGED <<kid, children, pending, worker, shutdown>>

Insert ==
  /\ main.pc = "insert"
  /\ children' = children \cup {main.kid}
  /\ MainGoes("loop")
  /\ Unlocked
  /\ UNCHANGED <<kid, pending, worker, shutdown>>

(* The event loop ends; stop_signal_worker interrupts a worker that is not *)
(* finished, and joins it.                                                 *)
LeaveLoop ==
  /\ main.pc = "loop"
  /\ MainGoes("stop")
  /\ UNCHANGED <<kid, children, lock, pending, worker, shutdown>>

StopWorker_JoinsOnly ==
  /\ main.pc = "stop"
  /\ MainGoes("join")
  /\ UNCHANGED <<kid, children, lock, pending, worker, shutdown>>

StopWorker ==
  /\ main.pc = "stop"
  /\ pending' = IF worker.pc = "over" THEN pending ELSE pending \cup {"term"}
  /\ MainGoes("join")
  /\ UNCHANGED <<kid, children, lock, worker, shutdown>>

Join ==
  /\ main.pc = "join"
  /\ worker.pc = "over"
  /\ MainGoes("over")
  /\ UNCHANGED <<kid, children, lock, pending, worker, shutdown>>

-------------------------------------------------------------------------------
(* watch_signals_with: wait for a signal, reap, and stop unless the signal *)
(* was SIGCHLD.                                                            *)
SigWait ==
  /\ worker.pc = "sigwait"
  /\ \E sig \in pending \cap supervisor_signal_set :
       /\ pending' = pending \ {sig}
       /\ worker' = [pc |-> "lock", got |-> sig]
  /\ UNCHANGED <<kid, children, lock, main, shutdown>>

ReapLock ==
  /\ worker.pc = "lock"
  /\ lock = None
  /\ lock' = "worker"
  /\ worker' = [worker EXCEPT !.pc = "reap"]
  /\ UNCHANGED <<kid, children, pending, main, shutdown>>

(* reap_ready: next_exited_child finds any child that can be waited for,   *)
(* one of ours is waited for and dropped, ...                              *)
ReapOne(k) ==
  /\ worker.pc = "reap"
  /\ k \in Zombies \cap children
  /\ kid' = [kid EXCEPT ![k] = "gone"]
  /\ children' = children \ {k}
  /\ UNCHANGED <<lock, pending, main, worker, shutdown>>

ReapEnds == lock' = None /\ worker' = [worker EXCEPT !.pc = "decide"]

(* ... a child that is not makes reap_finished ask each of ours instead,   *)
ReapFinished ==
  /\ worker.pc = "reap"
  /\ children # {}
  /\ Zombies \ children # {}
  /\ kid' = [k \in Kids |-> IF k \in Zombies \cap children THEN "gone" ELSE kid[k]]
  /\ children' = children \ Zombies
  /\ ReapEnds
  /\ UNCHANGED <<pending, main, shutdown>>

(* ... and no child at all, or none of ours, ends the loop.                *)
ReapNone ==
  /\ worker.pc = "reap"
  /\ children = {} \/ Zombies = {}
  /\ ReapEnds
  /\ UNCHANGED <<kid, children, pending, main, shutdown>>

(* waitid or try_wait fails: ours that can be reaped are, and the worker   *)
(* stops the supervisor.                                                   *)
ReapError ==
  /\ worker.pc = "reap"
  /\ \E lost \in SUBSET (Zombies \cap children) :
       /\ kid' = [k \in Kids |-> IF k \in (Zombies \cap children) \ lost THEN "gone" ELSE kid[k]]
       /\ children' = children \ (Zombies \ lost)
  /\ lock' = None
  /\ worker' = [pc |-> "over", got |-> None]
  /\ shutdown' = TRUE
  /\ UNCHANGED <<pending, main>>

Decide ==
  /\ worker.pc = "decide"
  /\ IF worker.got = "chld"
     THEN worker' = [pc |-> "sigwait", got |-> None] /\ UNCHANGED shutdown
     ELSE worker' = [pc |-> "over", got |-> None] /\ shutdown' = TRUE
  /\ UNCHANGED <<kid, children, lock, pending, main>>

-------------------------------------------------------------------------------
(* The kernel, the user, and the owner of the other children.              *)
Exit(k) ==
  /\ kid[k] = "alive"
  /\ kid' = [kid EXCEPT ![k] = "zombie"]
  /\ pending' = pending \cup ({"chld"} \cap Blocked)
  /\ UNCHANGED <<children, lock, main, worker, shutdown>>

TermSignal ==
  /\ "term" \in Blocked
  /\ pending' = pending \cup {"term"}
  /\ UNCHANGED <<kid, children, lock, main, worker, shutdown>>

OtherStarts(k) ==
  /\ k \in Others
  /\ kid[k] = "none"
  /\ kid' = [kid EXCEPT ![k] = "alive"]
  /\ UNCHANGED <<children, lock, pending, main, worker, shutdown>>

OtherReaped(k) ==
  /\ k \in Others
  /\ kid[k] = "zombie"
  /\ kid' = [kid EXCEPT ![k] = "gone"]
  /\ UNCHANGED <<children, lock, pending, main, worker, shutdown>>

MainNext ==
  \/ StartWorker \/ StartIpc
  \/ \E k \in Monitors : Spawn(k)
  \/ SpawnError \/ Insert \/ StopWorker \/ Join

WorkerNext ==
  \/ \E k \in Monitors : ReapOne(k)
  \/ SigWait \/ ReapLock \/ ReapFinished \/ ReapNone \/ Decide

ChildrenNext ==
  \/ MainNext \/ StartError \/ Lock \/ LeaveLoop
  \/ WorkerNext \/ ReapError
  \/ \E k \in Kids : Exit(k) \/ OtherStarts(k) \/ OtherReaped(k)
  \/ TermSignal

ChildrenSpec == ChildrenInit /\ [][ChildrenNext]_childrenVars

(* Both threads go on with what they have begun.  The main thread holds    *)
(* the lock for a spawn and sleeps between two of them, so that the worker *)
(* finds it free some time.                                                *)
ChildrenFairSpec ==
  /\ ChildrenSpec
  /\ WF_childrenVars(MainNext) /\ WF_childrenVars(WorkerNext) /\ SF_childrenVars(ReapLock)

-------------------------------------------------------------------------------
(* When the worker sleeps with no signal pending there is no monitor left  *)
(* to reap: an exit that came between spawn and registration, behind       *)
(* another one's signal, or together with a stranger's child was not       *)
(* missed (children.rs:20, reap_ready).                                    *)
NoExitMissed ==
  (worker.pc = "sigwait" /\ "chld" \notin pending) => Zombies \cap Monitors = {}

(* Every monitor that has ended is reaped as long as the worker runs, also *)
(* when the main thread spawns without end.                                *)
MonitorsReaped ==
  \A k \in Monitors : kid[k] = "zombie" ~> (kid[k] = "gone" \/ worker.pc = "over")

(* The supervisor can always stop: the main thread never waits for a       *)
(* worker that waits for a signal or for the lock.                         *)
StopEnds == main.pc = "stop" ~> main.pc = "over"

===============================================================================
