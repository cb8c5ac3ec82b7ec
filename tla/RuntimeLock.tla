------------------------------ MODULE RuntimeLock ------------------------------
(***************************************************************************)
(* How supervisor processes keep to one instance: RuntimeGuard takes       *)
(* supervisor.lock and binds supervisor.sock in the runtime directory, and *)
(* removes both when it is dropped.  A process is started once; it may be  *)
(* killed at any step, which leaves its files behind and nobody listening. *)
(*                                                                         *)
(* One action is one system call on a path, with the code up to the next   *)
(* one.  A file is its inode; a new file gets any inode that is neither    *)
(* linked nor open, so numbers are reused.  Only supervisors touch the     *)
(* directory: the checks for substituted files always succeed.             *)
(***************************************************************************)
EXTENDS Naturals, FiniteSets

CONSTANTS
  Procs,       \* the supervisor processes, each started at most once
  Inodes,      \* inode numbers
  None,        \* no process, no inode
  MaxKills     \* bound: how many of the processes are killed

ASSUME LockAssumption == None \notin Procs \cup Inodes /\ MaxKills \in Nat

NoFile == [ino |-> None, owner |-> None]

VARIABLES
  lock,    \* supervisor.lock: its inode and the identity in it, None while incomplete
  sock,    \* supervisor.sock: its inode, None if there is no such file
  proc,    \* the processes: program counter and local state of acquire
  racing   \* history: the processes started since one was started alone,
           \* none once a process has stopped or been killed meanwhile

vars == <<lock, sock, proc, racing>>

Local(pc) ==
  [pc |-> pc, attempt |-> 0, file |-> None, owner |-> None,
   lock_inode |-> None, listener |-> None, socket_inode |-> None]

Over == {"refused", "ended", "killed"}

Init ==
  /\ lock = NoFile
  /\ sock = None
  /\ proc = [p \in Procs |-> Local("new")]
  /\ racing = {}

At(p, pc) == proc[p].pc = pc

Alive(p) == proc[p].pc \notin Over \cup {"new"}

Goto(p, pc) == proc' = [proc EXCEPT ![p].pc = pc]

(* A process that leaves closes what it has open.                          *)
Leave(p, pc) == proc' = [proc EXCEPT ![p] = Local(pc)]

LockExists == lock.ino # None

SocketExists == sock # None

(* Somebody accepts connections at the socket path.                        *)
Answered ==
  \E p \in Procs : proc[p].listener = sock /\ SocketExists /\ ~At(p, "listen")

FreeLockInodes == Inodes \ ({lock.ino} \cup {proc[p].file : p \in Procs})

FreeSocketInodes == Inodes \ ({sock} \cup {proc[p].listener : p \in Procs})

-------------------------------------------------------------------------------
(* run_session_supervisor gets to RuntimeGuard::acquire.                   *)
Start(p) ==
  /\ At(p, "new")
  /\ Goto(p, "create")
  /\ racing' = IF \A q \in Procs : ~Alive(q) THEN {p}
               ELSE IF racing = {} THEN {} ELSE racing \cup {p}
  /\ UNCHANGED <<lock, sock>>

(* acquire_lock: create_new, twice at most.                                *)
CreateLock_OpensExisting(p) ==
  /\ At(p, "create")
  /\ proc[p].attempt < 2
  /\ \E i \in IF LockExists THEN {lock.ino} ELSE FreeLockInodes :
       /\ lock' = [ino |-> i, owner |-> None]
       /\ proc' = [proc EXCEPT ![p].pc = "write", ![p].file = i]
  /\ UNCHANGED <<sock, racing>>

CreateLock(p) ==
  /\ At(p, "create")
  /\ proc[p].attempt < 2
  /\ ~LockExists
  /\ \E i \in FreeLockInodes :
       /\ lock' = [ino |-> i, owner |-> None]
       /\ proc' = [proc EXCEPT ![p].pc = "write", ![p].file = i]
  /\ UNCHANGED <<sock, racing>>

LockTaken(p) ==
  /\ At(p, "create")
  /\ proc[p].attempt < 2
  /\ LockExists
  /\ Goto(p, "read")
  /\ UNCHANGED <<lock, sock, racing>>

(* The identity goes into the file that was created, wherever it is now.   *)
WriteLock(p) ==
  /\ At(p, "write")
  /\ lock' = IF lock.ino = proc[p].file THEN [lock EXCEPT !.owner = p] ELSE lock
  /\ proc' = [proc EXCEPT ![p].pc = "inode", ![p].file = None]
  /\ UNCHANGED <<sock, racing>>

(* The lock exists: whose is it?  An incomplete one is malformed, and one  *)
(* that is gone by now cannot be read: Refuse.                             *)
ReadLock(p) ==
  /\ At(p, "read")
  /\ lock.owner # None
  /\ proc' = [proc EXCEPT ![p].pc = "classify", ![p].owner = lock.owner]
  /\ UNCHANGED <<lock, sock, racing>>

Stale(p) ==
  /\ At(p, "classify")
  /\ ~Alive(proc[p].owner)
  /\ Goto(p, "unlink")
  /\ UNCHANGED <<lock, sock, racing>>

(* remove_file takes whatever is at the path by now.                       *)
UnlinkStale(p) ==
  /\ At(p, "unlink")
  /\ LockExists
  /\ lock' = NoFile
  /\ proc' = [proc EXCEPT ![p].pc = "create", ![p].attempt = @ + 1]
  /\ UNCHANGED <<sock, racing>>

(* lock_inode is read from the path, after the file was written.           *)
LockInode(p) ==
  /\ At(p, "inode")
  /\ LockExists
  /\ proc' = [proc EXCEPT ![p].pc = "look", ![p].lock_inode = lock.ino]
  /\ UNCHANGED <<lock, sock, racing>>

(* Is there a socket?  If so, does anybody answer?  If not, it goes.       *)
LookForSocket(p) ==
  /\ At(p, "look")
  /\ Goto(p, IF SocketExists THEN "connect" ELSE "bind")
  /\ UNCHANGED <<lock, sock, racing>>

Connect(p) ==
  /\ At(p, "connect")
  /\ Goto(p, IF Answered THEN "yield" ELSE "unsock")
  /\ UNCHANGED <<lock, sock, racing>>

UnlinkSocket(p) ==
  /\ At(p, "unsock")
  /\ SocketExists
  /\ sock' = None
  /\ Goto(p, "bind")
  /\ UNCHANGED <<lock, racing>>

(* UnixListener::bind is bind and then listen.                             *)
Bind(p) ==
  /\ At(p, "bind")
  /\ IF SocketExists
     THEN Goto(p, "yield") /\ UNCHANGED sock
     ELSE \E i \in FreeSocketInodes :
            /\ sock' = i
            /\ proc' = [proc EXCEPT ![p].pc = "listen", ![p].listener = i]
  /\ UNCHANGED <<lock, racing>>

Listen(p) ==
  /\ At(p, "listen")
  /\ Goto(p, "stat")
  /\ UNCHANGED <<lock, sock, racing>>

(* set_permissions and symlink_metadata need the path to exist.            *)
SocketInode(p) ==
  /\ At(p, "stat")
  /\ SocketExists
  /\ proc' = [proc EXCEPT ![p].pc = "serving", ![p].socket_inode = sock]
  /\ UNCHANGED <<lock, sock, racing>>

(* The errors that remove the lock before acquire returns: a live socket,  *)
(* or one that was bound first.                                            *)
Yield(p) ==
  /\ At(p, "yield")
  /\ lock' = NoFile
  /\ Leave(p, "refused")
  /\ UNCHANGED <<sock, racing>>

(* The errors that leave everything as it is: attempts used up, a path     *)
(* that is gone, an incomplete lock, a live owner.                         *)
Refuse_OneAttempt(p) ==
  /\ \/ At(p, "create") /\ proc[p].attempt >= 1
     \/ At(p, "read") /\ lock.owner = None
     \/ At(p, "classify") /\ Alive(proc[p].owner)
     \/ proc[p].pc \in {"unlink", "inode"} /\ ~LockExists
     \/ proc[p].pc \in {"unsock", "stat"} /\ ~SocketExists
  /\ Leave(p, "refused")
  /\ UNCHANGED <<lock, sock, racing>>

Refuse(p) ==
  /\ \/ At(p, "create") /\ proc[p].attempt = 2
     \/ At(p, "read") /\ lock.owner = None
     \/ At(p, "classify") /\ Alive(proc[p].owner)
     \/ proc[p].pc \in {"unlink", "inode"} /\ ~LockExists
     \/ proc[p].pc \in {"unsock", "stat"} /\ ~SocketExists
  /\ Leave(p, "refused")
  /\ UNCHANGED <<lock, sock, racing>>

-------------------------------------------------------------------------------
(* The loop ended, or the start failed after acquire: the guard is         *)
(* dropped.  remove_if_inode_matches compares the inode at the path with   *)
(* the one noted, and then removes what is at the path: first the socket,  *)
(* then the lock.                                                          *)
DropSocket(p) ==
  /\ At(p, "serving")
  /\ Goto(p, IF sock = proc[p].socket_inode THEN "drop" ELSE "dropped")
  /\ racing' = {}
  /\ UNCHANGED <<lock, sock>>

RemoveSocket(p) ==
  /\ At(p, "drop")
  /\ sock' = None
  /\ Goto(p, "dropped")
  /\ racing' = {}
  /\ UNCHANGED lock

DropLock(p) ==
  /\ At(p, "dropped")
  /\ IF lock.ino = proc[p].lock_inode THEN Goto(p, "unlock") ELSE Leave(p, "ended")
  /\ racing' = {}
  /\ UNCHANGED <<lock, sock>>

RemoveLock(p) ==
  /\ At(p, "unlock")
  /\ lock' = NoFile
  /\ Leave(p, "ended")
  /\ racing' = {}
  /\ UNCHANGED sock

(* A process is killed: its files stay.                                    *)
Kill(p) ==
  /\ Alive(p)
  /\ Cardinality({q \in Procs : At(q, "killed")}) < MaxKills
  /\ Leave(p, "killed")
  /\ racing' = {}
  /\ UNCHANGED <<lock, sock>>

Acquire(p) ==
  \/ CreateLock(p) \/ LockTaken(p) \/ WriteLock(p) \/ ReadLock(p) \/ Stale(p)
  \/ UnlinkStale(p) \/ LockInode(p) \/ LookForSocket(p) \/ Connect(p)
  \/ UnlinkSocket(p) \/ Bind(p) \/ Listen(p) \/ SocketInode(p)
  \/ Yield(p) \/ Refuse(p)

Drop(p) == DropSocket(p) \/ RemoveSocket(p) \/ DropLock(p) \/ RemoveLock(p)

Next == \E p \in Procs :
  Start(p) \/ Acquire(p) \/ Drop(p) \/ Kill(p)

Spec == Init /\ [][Next]_vars

-------------------------------------------------------------------------------
Serving == {p \in Procs : At(p, "serving")}

(* At most one supervisor is past RuntimeGuard::acquire ("Single-instance  *)
(* scheduling supervisor", supervisor/mod.rs; runtime_is_single_instance_  *)
(* and_cleans_up tests it with one process).  Recovery and due execution   *)
(* rely on it: Lifecycle.tla has one supervisor at a time.                 *)
SingleInstance == \A p, q \in Serving : p = q

Went == {"drop", "dropped", "unlock", "ended", "killed"}

NobodyWent == \A p \in Procs : proc[p].pc \notin Went

(* However many first submissions start supervisors at the same time, one  *)
(* of them serves: until a supervisor has stopped or been killed, the lock *)
(* alone decides (create_new in acquire_lock; an incomplete lock is        *)
(* refused, a live owner is never taken over).                             *)
FirstIsOnly == NobodyWent => SingleInstance

Quiet == \A p \in Procs : proc[p].pc \in Over \cup {"new", "serving"}

(* One or two supervisors that start after all others are gone never both  *)
(* give way to each other: one gets to serve, whatever stale files they    *)
(* find, and remove from under each other - unless the lock was left by a  *)
(* process killed between creating and writing it, which acquire_lock      *)
(* refuses as malformed.  (Three starting together can: the one that takes *)
(* the lock loses it to a second, and that one to the third, whose         *)
(* attempts end.)                                                          *)
SomebodyServes ==
  /\ Quiet
  /\ racing # {} /\ \E p, q \in Procs : racing \subseteq {p, q}
  /\ LockExists => lock.owner # None
  => Serving # {}

===============================================================================
