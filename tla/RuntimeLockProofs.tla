--------------------------- MODULE RuntimeLockProofs ---------------------------
(***************************************************************************)
(* For any number of processes: until a supervisor has stopped or been     *)
(* killed at most one serves (the invariant is that the lock exists        *)
(* exactly while one process - the same all the time - is past             *)
(* create_new); and of two that start after the others are gone one serves *)
(* (the invariant says what each may find at the two paths while both are  *)
(* on their way, so that what makes one give up leaves the other alone     *)
(* with all it needs).                                                     *)
(***************************************************************************)
EXTENDS RuntimeLock, TLAPS

(* Past create_new in acquire_lock.                                        *)
Holding == {"write", "inode", "look", "bind", "listen", "stat", "serving"}

Holds(p) == proc[p].pc \in Holding

States == {"new", "create", "read", "classify", "unlink", "connect", "unsock",
           "yield", "drop", "dropped", "unlock"} \cup Holding \cup Over

LocalState ==
  [pc : States, attempt : Nat, file : Inodes \cup {None}, owner : Procs \cup {None},
   lock_inode : Inodes \cup {None}, listener : Inodes \cup {None},
   socket_inode : Inodes \cup {None}]

TypeInv ==
  /\ lock \in [ino : Inodes \cup {None}, owner : Procs \cup {None}]
  /\ sock \in Inodes \cup {None}
  /\ proc \in [Procs -> LocalState]

(* The lock belongs to one process, which alone gets to the socket.        *)
OneHolder ==
  /\ \A p, q \in Procs : Holds(p) /\ Holds(q) => p = q
  /\ LockExists <=> \E p \in Procs : Holds(p)
  /\ SocketExists <=> \E p \in Procs : proc[p].pc \in {"listen", "stat", "serving"}
  /\ lock.owner # None => Holds(lock.owner)

(* The others wait for it to answer or have given up.                      *)
OthersRefused ==
  \A p \in Procs :
    /\ Holds(p) \/ proc[p].pc \in {"new", "create", "read", "classify", "refused"}
    /\ At(p, "create") => proc[p].attempt = 0
    /\ proc[p].pc \in {"new", "read", "classify"} => proc[p].attempt = 0
    /\ At(p, "classify") => proc[p].owner \in Procs /\ Holds(proc[p].owner)

LInv == TypeInv /\ (NobodyWent => OneHolder /\ OthersRefused)

LEMMA InitL == Init => LInv
BY LockAssumption DEF Init, LInv, TypeInv, NobodyWent, OneHolder, OthersRefused, Holds, Holding,
   LocalState, States, Local, NoFile, LockExists, SocketExists, At, Over

(* What an action does to the local variables of a process keeps their     *)
(* types.                                                                  *)
LEMMA LocalTypes ==
  ASSUME NEW r \in LocalState, NEW pc \in States,
         NEW i \in Inodes \cup {None}, NEW o \in Procs \cup {None}
  PROVE  /\ [r EXCEPT !.pc = pc] \in LocalState
         /\ [r EXCEPT !.pc = pc, !.attempt = @ + 1] \in LocalState
         /\ [r EXCEPT !.pc = pc, !.file = i] \in LocalState
         /\ [r EXCEPT !.pc = pc, !.lock_inode = i] \in LocalState
         /\ [r EXCEPT !.pc = pc, !.listener = i] \in LocalState
         /\ [r EXCEPT !.pc = pc, !.socket_inode = i] \in LocalState
         /\ [r EXCEPT !.pc = pc, !.owner = o] \in LocalState
         /\ Local(pc) \in LocalState
<1>1. Local(pc) \in LocalState BY DEF LocalState, Local
<1>2. [r EXCEPT !.pc = pc] \in LocalState BY DEF LocalState
<1>3. [r EXCEPT !.pc = pc, !.attempt = @ + 1] \in LocalState
  <2>1. ASSUME NEW n \in Nat PROVE [r EXCEPT !.pc = pc, !.attempt = n] \in LocalState
    BY DEF LocalState
  <2>2. r.attempt + 1 \in Nat BY DEF LocalState
  <2> QED BY <2>1, <2>2
<1>4. [r EXCEPT !.pc = pc, !.file = i] \in LocalState BY DEF LocalState
<1>5. [r EXCEPT !.pc = pc, !.lock_inode = i] \in LocalState BY DEF LocalState
<1>6. [r EXCEPT !.pc = pc, !.listener = i] \in LocalState BY DEF LocalState
<1>7. [r EXCEPT !.pc = pc, !.socket_inode = i] \in LocalState BY DEF LocalState
<1>8. [r EXCEPT !.pc = pc, !.owner = o] \in LocalState BY DEF LocalState
<1> QED BY <1>1, <1>2, <1>3, <1>4, <1>5, <1>6, <1>7, <1>8

LEMMA TypeStep == ASSUME TypeInv, Next PROVE TypeInv'
<1> USE DEF TypeInv, NoFile
<1>1. PICK p \in Procs : Start(p) \/ Acquire(p) \/ Drop(p) \/ Kill(p)
  BY DEF Next
<1>2. ASSUME NEW pc \in States, Goto(p, pc) \/ Leave(p, pc)
      PROVE  proc' \in [Procs -> LocalState]
  <2>1. CASE Goto(p, pc)
    <3>1. proc' = [proc EXCEPT ![p] = [proc[p] EXCEPT !.pc = pc]] BY <2>1 DEF Goto
    <3>2. [proc[p] EXCEPT !.pc = pc] \in LocalState BY LocalTypes
    <3> QED BY <3>1, <3>2
  <2>2. CASE Leave(p, pc)
    <3>1. Local(pc) \in LocalState BY LocalTypes
    <3> QED BY <2>2, <3>1 DEF Leave
  <2> QED BY <1>2, <2>1, <2>2
<1>3. {"create", "read", "unlink", "connect", "bind", "yield", "unsock", "stat", "refused",
       "drop", "dropped", "unlock", "ended", "killed", "write", "inode", "classify", "look", "listen", "serving"}
        \subseteq States
  BY DEF States, Holding, Over
<1>4. CASE Start(p) BY <1>2, <1>3, <1>4 DEF Start
<1>5. CASE CreateLock(p)
  <2>1. PICK i \in Inodes : /\ lock' = [ino |-> i, owner |-> None]
                            /\ proc' = [proc EXCEPT ![p].pc = "write", ![p].file = i]
    BY <1>5 DEF CreateLock, FreeLockInodes, FreeSocketInodes
  <2>2. proc' = [proc EXCEPT ![p] = [proc[p] EXCEPT !.pc = "write", !.file = i]]
    BY <1>5, <2>1 DEF CreateLock
  <2>3. [proc[p] EXCEPT !.pc = "write", !.file = i] \in LocalState
    BY LocalTypes, <1>3
  <2> QED BY <1>5, <2>1, <2>2, <2>3 DEF CreateLock
<1>6. CASE LockTaken(p) BY <1>2, <1>3, <1>6 DEF LockTaken
<1>7. CASE WriteLock(p)
  <2>1. proc' = [proc EXCEPT ![p] = [proc[p] EXCEPT !.pc = "inode", !.file = None]]
    BY <1>7 DEF WriteLock
  <2>2. [proc[p] EXCEPT !.pc = "inode", !.file = None] \in LocalState
    BY LocalTypes, <1>3
  <2> QED BY <1>7, <2>1, <2>2 DEF WriteLock
<1>8. CASE ReadLock(p)
  <2>1. proc' = [proc EXCEPT ![p] = [proc[p] EXCEPT !.pc = "classify", !.owner = lock.owner]]
    BY <1>8 DEF ReadLock
  <2>2. [proc[p] EXCEPT !.pc = "classify", !.owner = lock.owner] \in LocalState
    BY LocalTypes, <1>3
  <2> QED BY <1>8, <2>1, <2>2 DEF ReadLock
<1>9. CASE Stale(p) BY <1>2, <1>3, <1>9 DEF Stale
<1>10. CASE UnlinkStale(p)
  <2>1. proc' = [proc EXCEPT ![p] = [proc[p] EXCEPT !.pc = "create", !.attempt = @ + 1]]
    BY <1>10 DEF UnlinkStale
  <2>2. [proc[p] EXCEPT !.pc = "create", !.attempt = @ + 1] \in LocalState
    BY LocalTypes, <1>3
  <2> QED BY <1>10, <2>1, <2>2 DEF UnlinkStale
<1>11. CASE LockInode(p)
  <2>1. proc' = [proc EXCEPT ![p] = [proc[p] EXCEPT !.pc = "look", !.lock_inode = lock.ino]]
    BY <1>11 DEF LockInode
  <2>2. [proc[p] EXCEPT !.pc = "look", !.lock_inode = lock.ino] \in LocalState
    BY LocalTypes, <1>3
  <2> QED BY <1>11, <2>1, <2>2 DEF LockInode
<1>12. CASE LookForSocket(p) BY <1>2, <1>3, <1>12 DEF LookForSocket
<1>13. CASE Connect(p) BY <1>2, <1>3, <1>13 DEF Connect
<1>14. CASE UnlinkSocket(p) BY <1>2, <1>3, <1>14 DEF UnlinkSocket
<1>15. CASE Bind(p)
  <2>1. CASE SocketExists BY <1>2, <1>3, <1>15, <2>1 DEF Bind
  <2>2. CASE ~SocketExists
    <3>1. PICK i \in Inodes : /\ sock' = i
                              /\ proc' = [proc EXCEPT ![p].pc = "listen", ![p].listener = i]
      BY <1>15, <2>2 DEF Bind, FreeSocketInodes
    <3>2. proc' = [proc EXCEPT ![p] = [proc[p] EXCEPT !.pc = "listen", !.listener = i]]
      BY <3>1
    <3>3. [proc[p] EXCEPT !.pc = "listen", !.listener = i] \in LocalState
      BY LocalTypes, <1>3
    <3> QED BY <1>15, <3>1, <3>2, <3>3 DEF Bind
  <2> QED BY <2>1, <2>2
<1>16. CASE Listen(p) BY <1>2, <1>3, <1>16 DEF Listen
<1>17. CASE SocketInode(p)
  <2>1. proc' = [proc EXCEPT ![p] = [proc[p] EXCEPT !.pc = "serving", !.socket_inode = sock]]
    BY <1>17 DEF SocketInode
  <2>2. [proc[p] EXCEPT !.pc = "serving", !.socket_inode = sock] \in LocalState
    BY LocalTypes, <1>3
  <2> QED BY <1>17, <2>1, <2>2 DEF SocketInode
<1>18. CASE Yield(p) BY <1>2, <1>3, <1>18 DEF Yield
<1>19. CASE Refuse(p) BY <1>2, <1>3, <1>19 DEF Refuse
<1>20. CASE DropSocket(p) BY <1>2, <1>3, <1>20 DEF DropSocket
<1>21. CASE RemoveSocket(p) BY <1>2, <1>3, <1>21 DEF RemoveSocket
<1>22. CASE DropLock(p) BY <1>2, <1>3, <1>22 DEF DropLock
<1>23. CASE RemoveLock(p) BY <1>2, <1>3, <1>23 DEF RemoveLock
<1>24. CASE Kill(p) BY <1>2, <1>3, <1>24 DEF Kill
<1> QED
  BY <1>1, <1>4, <1>5, <1>6, <1>7, <1>8, <1>9, <1>10, <1>11, <1>12,
     <1>13, <1>14, <1>15, <1>16, <1>17, <1>18, <1>19, <1>20, <1>21,
     <1>22, <1>23, <1>24 DEF Acquire, Drop

(* A step of a process touches nobody else, and who went stays away.       *)
LEMMA StillThere == ASSUME TypeInv, Next, NobodyWent' PROVE NobodyWent
<1> USE DEF TypeInv, At, Goto, Leave, Local, Went
<1>1. PICK p \in Procs : Start(p) \/ Acquire(p) \/ Drop(p) \/ Kill(p)
  BY DEF Next
<1>2. /\ \A q \in Procs \ {p} : proc'[q] = proc[q]
      /\ proc[p].pc \in Went => proc'[p].pc \in Went
  <2>1. CASE Start(p) BY <2>1 DEF Start, LocalState
  <2>2. CASE CreateLock(p) BY <2>2 DEF CreateLock, LocalState
  <2>3. CASE LockTaken(p) BY <2>3 DEF LockTaken, LocalState
  <2>4. CASE WriteLock(p) BY <2>4 DEF WriteLock, LocalState
  <2>5. CASE ReadLock(p) BY <2>5 DEF ReadLock, LocalState
  <2>6. CASE Stale(p) BY <2>6 DEF Stale, LocalState
  <2>7. CASE UnlinkStale(p) BY <2>7 DEF UnlinkStale, LocalState
  <2>8. CASE LockInode(p) BY <2>8 DEF LockInode, LocalState
  <2>9. CASE LookForSocket(p) BY <2>9 DEF LookForSocket, LocalState
  <2>10. CASE Connect(p) BY <2>10 DEF Connect, LocalState
  <2>11. CASE UnlinkSocket(p) BY <2>11 DEF UnlinkSocket, LocalState
  <2>12. CASE Bind(p) BY <2>12 DEF Bind, LocalState
  <2>13. CASE Listen(p) BY <2>13 DEF Listen, LocalState
  <2>14. CASE SocketInode(p) BY <2>14 DEF SocketInode, LocalState
  <2>15. CASE Yield(p) BY <2>15 DEF Yield, LocalState
  <2>16. CASE Refuse(p) BY <2>16 DEF Refuse, LocalState
  <2>17. CASE DropSocket(p) BY <2>17 DEF DropSocket, LocalState
  <2>18. CASE RemoveSocket(p) BY <2>18 DEF RemoveSocket, LocalState
  <2>19. CASE DropLock(p) BY <2>19 DEF DropLock, LocalState
  <2>20. CASE RemoveLock(p) BY <2>20 DEF RemoveLock, LocalState
  <2>21. CASE Kill(p) BY <2>21 DEF Kill, LocalState
  <2> QED
    BY <1>1, <2>1, <2>2, <2>3, <2>4, <2>5, <2>6, <2>7, <2>8, <2>9, <2>10,
       <2>11, <2>12, <2>13, <2>14, <2>15, <2>16, <2>17, <2>18,
       <2>19, <2>20, <2>21 DEF Acquire, Drop
<1> QED BY <1>2 DEF NobodyWent

(* One holder stays one holder.  Stale cannot fire, because the owner of   *)
(* the lock is alive; so nobody unlinks, and the holder finds its lock and *)
(* no socket.                                                              *)
LEMMA HolderStep ==
  ASSUME TypeInv, OneHolder, OthersRefused, Next, NobodyWent'
  PROVE  OneHolder' /\ OthersRefused'
<1> USE DEF TypeInv, OneHolder, OthersRefused, Holds, Holding, At, LockExists, SocketExists,
        Goto, Leave, Local, NoFile
<1> USE LockAssumption
<1>1. PICK p \in Procs : Start(p) \/ Acquire(p) \/ Drop(p) \/ Kill(p)
  BY DEF Next
<1>2. CASE Start(p) BY <1>2 DEF Start, LocalState
<1>3. CASE CreateLock(p) BY <1>3 DEF CreateLock, LocalState, FreeLockInodes
<1>4. CASE LockTaken(p) BY <1>4 DEF LockTaken, LocalState
<1>5. CASE WriteLock(p) BY <1>5 DEF WriteLock, LocalState
<1>6. CASE ReadLock(p) BY <1>6 DEF ReadLock, LocalState
<1>7. CASE Stale(p) BY <1>7 DEF Stale, LocalState, Alive, Over
<1>8. CASE UnlinkStale(p) BY <1>8 DEF UnlinkStale, LocalState
<1>9. CASE LockInode(p) BY <1>9 DEF LockInode, LocalState
<1>10. CASE LookForSocket(p) BY <1>10 DEF LookForSocket, LocalState
<1>11. CASE Connect(p) BY <1>11 DEF Connect, LocalState
<1>12. CASE UnlinkSocket(p) BY <1>12 DEF UnlinkSocket, LocalState
<1>13. CASE Bind(p) BY <1>13 DEF Bind, LocalState, FreeSocketInodes
<1>14. CASE Listen(p) BY <1>14 DEF Listen, LocalState
<1>15. CASE SocketInode(p) BY <1>15 DEF SocketInode, LocalState
<1>16. CASE Yield(p) BY <1>16 DEF Yield, LocalState
<1>17. CASE Refuse(p)
  <2>1. ~Holds(p) BY <1>17 DEF Refuse
  <2>2. /\ UNCHANGED <<lock, sock>>
        /\ \A q \in Procs \ {p} : proc'[q] = proc[q]
        /\ proc'[p].pc = "refused"
    BY <1>17 DEF Refuse
  <2> QED BY <2>1, <2>2
<1>18. CASE DropSocket(p) BY <1>18 DEF DropSocket, LocalState, NobodyWent, Went
<1>19. CASE RemoveSocket(p) BY <1>19 DEF RemoveSocket, LocalState, NobodyWent, Went
<1>20. CASE DropLock(p) BY <1>20 DEF DropLock, LocalState, NobodyWent, Went
<1>21. CASE RemoveLock(p) BY <1>21 DEF RemoveLock, LocalState, NobodyWent, Went
<1>22. CASE Kill(p) BY <1>22 DEF Kill, LocalState, NobodyWent, Went
<1> QED
  BY <1>1, <1>2, <1>3, <1>4, <1>5, <1>6, <1>7, <1>8, <1>9, <1>10, <1>11,
     <1>12, <1>13, <1>14, <1>15, <1>16, <1>17, <1>18, <1>19,
     <1>20, <1>21, <1>22 DEF Acquire, Drop

(* Started in any number at the same time, supervisors elect one:          *)
(* RuntimeGuard::acquire lets a second one through only after a first has  *)
(* stopped or been killed.                                                 *)
THEOREM FirstIsOnlyHolds == Spec => []FirstIsOnly
<1>1. LInv /\ [Next]_vars => LInv'
  <2> SUFFICES ASSUME LInv, [Next]_vars PROVE LInv' OBVIOUS
  <2>1. CASE Next
    <3>1. TypeInv' BY <2>1, TypeStep DEF LInv
    <3>2. NobodyWent' => OneHolder' /\ OthersRefused'
      BY <2>1, StillThere, HolderStep DEF LInv
    <3> QED BY <3>1, <3>2 DEF LInv
  <2>2. CASE UNCHANGED vars
    BY <2>2 DEF vars, LInv, TypeInv, NobodyWent, OneHolder, OthersRefused, Holds,
       LockExists, SocketExists, At
  <2> QED BY <2>1, <2>2
<1>2. LInv => FirstIsOnly
  BY DEF LInv, OneHolder, FirstIsOnly, SingleInstance, Serving, Holds, Holding, At
<1> QED BY InitL, <1>1, <1>2, PTL DEF Spec

-------------------------------------------------------------------------------
(* In acquire_lock; with the lock; with a socket of its own.               *)
Locking == {"create", "read", "classify", "unlink", "write", "inode"}

Bound == {"listen", "stat", "serving"}

Past == {"look", "connect", "unsock", "bind", "yield"} \cup Bound

(* What a process that is not on its way has closed, and what the locals   *)
(* of one that is mean.                                                    *)
Locals ==
  /\ \A p \in Procs :
       /\ ~Alive(p) => proc[p].listener = None
       /\ At(p, "new") => proc[p].attempt = 0
       /\ proc[p].listener # None => proc[p].pc \in Bound \cup Went
       /\ At(p, "write") => proc[p].file # None
       /\ At(p, "classify") => proc[p].owner \in Procs /\ ~At(proc[p].owner, "new")
  /\ lock.owner # None => LockExists /\ ~At(lock.owner, "new")

(* The lock is complete or being written, by a process that then owns it   *)
(* until it leaves.                                                        *)
Complete ==
  /\ LockExists /\ lock.owner = None
       => \E p \in Procs : At(p, "write") /\ proc[p].file = lock.ino
  /\ lock.owner # None /\ Alive(lock.owner)
       => proc[lock.owner].pc \in Past \cup {"inode"}

(* Alone, p gets to serve.                                                 *)
Good(p) ==
  /\ proc[p].pc \in (Locking \cup Past) \ {"yield"}
  /\ At(p, "create") => proc[p].attempt \in {0, 1} /\ (LockExists => proc[p].attempt = 0)
  /\ proc[p].pc \in {"read", "classify", "unlink"} => proc[p].attempt = 0
  /\ proc[p].pc \in Locking \ {"create"} => LockExists
  /\ At(p, "classify") => ~Alive(proc[p].owner)
  /\ proc[p].pc \in {"connect", "unsock", "listen", "stat"} => SocketExists
  /\ At(p, "bind") => ~SocketExists

(* While p and q are both on their way, what p may find at a path:         *)
(* whatever makes p give up leaves q able to serve.                        *)
Yields(p, q) ==
  /\ proc[p].pc \in Locking \cup Past
  /\ proc[p].pc \in {"create", "read", "classify"} => proc[p].attempt \in {0, 1}
  /\ \/ At(p, "unlink")
     \/ At(p, "classify") /\ ~Alive(proc[p].owner)
     \/ proc[p].pc \in {"create", "read"} /\ lock.owner # None /\ ~Alive(lock.owner)
     => proc[p].attempt = 0
  /\ At(p, "classify") /\ Alive(proc[p].owner)
       => /\ proc[p].owner = q
          /\ proc[q].pc \in Past \cup {"inode"}
          /\ LockExists
  /\ proc[p].pc \in Locking \ {"create"} /\ ~LockExists => At(q, "create")
  /\ proc[p].pc \in {"connect", "unsock", "listen", "stat"} /\ ~SocketExists => At(q, "bind")
  /\ At(p, "bind") /\ SocketExists => proc[q].pc \in Bound
  /\ At(p, "yield") => proc[q].pc \in Bound /\ SocketExists

(* The lock was left incomplete: whoever starts is refused.                *)
Doomed ==
  /\ LockExists /\ lock.owner = None
  /\ \A p \in Procs : Alive(p) => proc[p].pc \in {"create", "read"} /\ proc[p].attempt = 0

Going(p, q) ==
  /\ Complete
  /\ IF p # q /\ Alive(p) /\ Alive(q)
     THEN Yields(p, q) /\ Yields(q, p)
     ELSE \E r \in {p, q} : Alive(r) /\ Good(r)

Race ==
  \A p, q \in Procs : racing = {p, q} =>
    /\ \A r \in Procs : Alive(r) => r \in {p, q}
    /\ Doomed \/ Going(p, q)

(* What an action makes of the locals of its process: nobody else's change.*)
Does(p, pc, attempt, file, owner, listener) ==
  /\ \A q \in Procs : q # p => proc'[q] = proc[q]
  /\ proc'[p].pc = pc
  /\ proc'[p].attempt = attempt
  /\ proc'[p].file = file
  /\ proc'[p].owner = owner
  /\ proc'[p].listener = listener

Keeps(p, pc) ==
  Does(p, pc, proc[p].attempt, proc[p].file, proc[p].owner, proc[p].listener)

LEMMA GotoKeeps == ASSUME TypeInv, NEW p \in Procs, NEW pc, Goto(p, pc) PROVE Keeps(p, pc)
BY DEF TypeInv, Goto, Keeps, Does, LocalState

LEMMA LeaveDrops ==
  ASSUME TypeInv, NEW p \in Procs, NEW pc, Leave(p, pc)
  PROVE  Does(p, pc, 0, None, None, None)
BY DEF TypeInv, Leave, Does, Local

LEMMA Effects ==
  ASSUME TypeInv, NEW p \in Procs
  PROVE  /\ Start(p) => At(p, "new") /\ Keeps(p, "create") /\ UNCHANGED <<lock, sock>>
         /\ CreateLock(p) =>
              /\ At(p, "create") /\ proc[p].attempt < 2 /\ ~LockExists
              /\ \E i \in Inodes :
                   /\ lock' = [ino |-> i, owner |-> None]
                   /\ Does(p, "write", proc[p].attempt, i, proc[p].owner, proc[p].listener)
              /\ UNCHANGED <<sock, racing>>
         /\ LockTaken(p) =>
              /\ At(p, "create") /\ proc[p].attempt < 2 /\ LockExists
              /\ Keeps(p, "read") /\ UNCHANGED <<lock, sock, racing>>
         /\ WriteLock(p) =>
              /\ At(p, "write")
              /\ lock' = IF lock.ino = proc[p].file THEN [ino |-> lock.ino, owner |-> p] ELSE lock
              /\ Does(p, "inode", proc[p].attempt, None, proc[p].owner, proc[p].listener)
              /\ UNCHANGED <<sock, racing>>
         /\ ReadLock(p) =>
              /\ At(p, "read") /\ lock.owner # None
              /\ Does(p, "classify", proc[p].attempt, proc[p].file, lock.owner, proc[p].listener)
              /\ UNCHANGED <<lock, sock, racing>>
         /\ Stale(p) =>
              /\ At(p, "classify") /\ ~Alive(proc[p].owner)
              /\ Keeps(p, "unlink") /\ UNCHANGED <<lock, sock, racing>>
         /\ UnlinkStale(p) =>
              /\ At(p, "unlink") /\ LockExists /\ lock' = NoFile
              /\ Does(p, "create", proc[p].attempt + 1, proc[p].file, proc[p].owner, proc[p].listener)
              /\ UNCHANGED <<sock, racing>>
         /\ LockInode(p) =>
              /\ At(p, "inode") /\ LockExists
              /\ Keeps(p, "look") /\ UNCHANGED <<lock, sock, racing>>
         /\ LookForSocket(p) =>
              /\ At(p, "look")
              /\ Keeps(p, IF SocketExists THEN "connect" ELSE "bind")
              /\ UNCHANGED <<lock, sock, racing>>
         /\ Connect(p) =>
              /\ At(p, "connect")
              /\ Keeps(p, IF Answered THEN "yield" ELSE "unsock")
              /\ UNCHANGED <<lock, sock, racing>>
         /\ UnlinkSocket(p) =>
              /\ At(p, "unsock") /\ SocketExists /\ sock' = None
              /\ Keeps(p, "bind") /\ UNCHANGED <<lock, racing>>
         /\ Bind(p) =>
              /\ At(p, "bind")
              /\ \/ SocketExists /\ Keeps(p, "yield") /\ UNCHANGED sock
                 \/ /\ ~SocketExists
                    /\ \E i \in Inodes :
                         /\ sock' = i
                         /\ Does(p, "listen", proc[p].attempt, proc[p].file, proc[p].owner, i)
              /\ UNCHANGED <<lock, racing>>
         /\ Listen(p) =>
              At(p, "listen") /\ Keeps(p, "stat") /\ UNCHANGED <<lock, sock, racing>>
         /\ SocketInode(p) =>
              /\ At(p, "stat") /\ SocketExists
              /\ Keeps(p, "serving") /\ UNCHANGED <<lock, sock, racing>>
         /\ Yield(p) =>
              /\ At(p, "yield") /\ lock' = NoFile
              /\ Does(p, "refused", 0, None, None, None) /\ UNCHANGED <<sock, racing>>
<1> USE DEF TypeInv
<1>1. Start(p) => At(p, "new") /\ Keeps(p, "create") /\ UNCHANGED <<lock, sock>>
  BY GotoKeeps DEF Start
<1>2. ASSUME CreateLock(p)
      PROVE  /\ At(p, "create") /\ proc[p].attempt < 2 /\ ~LockExists
             /\ \E i \in Inodes :
                  /\ lock' = [ino |-> i, owner |-> None]
                  /\ Does(p, "write", proc[p].attempt, i, proc[p].owner, proc[p].listener)
             /\ UNCHANGED <<sock, racing>>
  <2>1. PICK i \in Inodes : /\ lock' = [ino |-> i, owner |-> None]
                            /\ proc' = [proc EXCEPT ![p].pc = "write", ![p].file = i]
    BY <1>2 DEF CreateLock, FreeLockInodes
  <2>2. Does(p, "write", proc[p].attempt, i, proc[p].owner, proc[p].listener)
    BY <2>1 DEF Does, LocalState
  <2> QED BY <1>2, <2>1, <2>2 DEF CreateLock
<1>3. LockTaken(p) => /\ At(p, "create") /\ proc[p].attempt < 2 /\ LockExists
                      /\ Keeps(p, "read") /\ UNCHANGED <<lock, sock, racing>>
  BY GotoKeeps DEF LockTaken
<1>4. ASSUME WriteLock(p)
      PROVE  /\ At(p, "write")
             /\ lock' = IF lock.ino = proc[p].file THEN [ino |-> lock.ino, owner |-> p] ELSE lock
             /\ Does(p, "inode", proc[p].attempt, None, proc[p].owner, proc[p].listener)
             /\ UNCHANGED <<sock, racing>>
  <2>1. [lock EXCEPT !.owner = p] = [ino |-> lock.ino, owner |-> p] OBVIOUS
  <2>2. Does(p, "inode", proc[p].attempt, None, proc[p].owner, proc[p].listener)
    BY <1>4 DEF WriteLock, Does, LocalState
  <2> QED BY <1>4, <2>1, <2>2 DEF WriteLock
<1>5. ReadLock(p) =>
        /\ At(p, "read") /\ lock.owner # None
        /\ Does(p, "classify", proc[p].attempt, proc[p].file, lock.owner, proc[p].listener)
        /\ UNCHANGED <<lock, sock, racing>>
  BY DEF ReadLock, Does, LocalState
<1>6. Stale(p) => /\ At(p, "classify") /\ ~Alive(proc[p].owner)
                  /\ Keeps(p, "unlink") /\ UNCHANGED <<lock, sock, racing>>
  BY GotoKeeps DEF Stale
<1>7. UnlinkStale(p) =>
        /\ At(p, "unlink") /\ LockExists /\ lock' = NoFile
        /\ Does(p, "create", proc[p].attempt + 1, proc[p].file, proc[p].owner, proc[p].listener)
        /\ UNCHANGED <<sock, racing>>
  BY DEF UnlinkStale, Does, LocalState
<1>8. LockInode(p) => /\ At(p, "inode") /\ LockExists
                      /\ Keeps(p, "look") /\ UNCHANGED <<lock, sock, racing>>
  BY DEF LockInode, Keeps, Does, LocalState
<1>9. LookForSocket(p) => /\ At(p, "look")
                          /\ Keeps(p, IF SocketExists THEN "connect" ELSE "bind")
                          /\ UNCHANGED <<lock, sock, racing>>
  BY GotoKeeps DEF LookForSocket
<1>10. Connect(p) => /\ At(p, "connect")
                     /\ Keeps(p, IF Answered THEN "yield" ELSE "unsock")
                     /\ UNCHANGED <<lock, sock, racing>>
  BY GotoKeeps DEF Connect
<1>11. UnlinkSocket(p) => /\ At(p, "unsock") /\ SocketExists /\ sock' = None
                          /\ Keeps(p, "bind") /\ UNCHANGED <<lock, racing>>
  BY GotoKeeps DEF UnlinkSocket
<1>12. ASSUME Bind(p)
       PROVE  /\ At(p, "bind")
              /\ \/ SocketExists /\ Keeps(p, "yield") /\ UNCHANGED sock
                 \/ /\ ~SocketExists
                    /\ \E i \in Inodes :
                         /\ sock' = i
                         /\ Does(p, "listen", proc[p].attempt, proc[p].file, proc[p].owner, i)
              /\ UNCHANGED <<lock, racing>>
  <2>1. CASE SocketExists BY <1>12, <2>1, GotoKeeps DEF Bind
  <2>2. CASE ~SocketExists
    <3>1. PICK i \in Inodes : /\ sock' = i
                              /\ proc' = [proc EXCEPT ![p].pc = "listen", ![p].listener = i]
      BY <1>12, <2>2 DEF Bind, FreeSocketInodes
    <3>2. Does(p, "listen", proc[p].attempt, proc[p].file, proc[p].owner, i)
      BY <3>1 DEF Does, LocalState
    <3> QED BY <1>12, <2>2, <3>1, <3>2 DEF Bind
  <2> QED BY <2>1, <2>2
<1>13. Listen(p) => At(p, "listen") /\ Keeps(p, "stat") /\ UNCHANGED <<lock, sock, racing>>
  BY GotoKeeps DEF Listen
<1>14. SocketInode(p) => /\ At(p, "stat") /\ SocketExists
                         /\ Keeps(p, "serving") /\ UNCHANGED <<lock, sock, racing>>
  BY DEF SocketInode, Keeps, Does, LocalState
<1>15. Yield(p) => /\ At(p, "yield") /\ lock' = NoFile
                   /\ Does(p, "refused", 0, None, None, None) /\ UNCHANGED <<sock, racing>>
  BY LeaveDrops DEF Yield
<1> QED
  BY <1>1, <1>2, <1>3, <1>4, <1>5, <1>6, <1>7, <1>8, <1>9, <1>10, <1>11, <1>12, <1>13, <1>14,
     <1>15

(* Alone, p goes on to serve: every path it needs is as it left it.        *)
LEMMA SoloStep ==
  ASSUME TypeInv, Locals, Complete, NEW p \in Procs, Good(p),
         \A q \in Procs : Alive(q) => q = p,
         Acquire(p)
  PROVE  Complete' /\ Alive(p)' /\ Good(p)'
<1> USE LockAssumption
<1> USE DEF TypeInv, Locals, Complete, Good, Alive, At, Over, Locking, Past, Bound, LockExists,
        SocketExists, NoFile, Keeps, Does
<1>1. CASE CreateLock(p) BY <1>1, Effects
<1>2. CASE LockTaken(p) BY <1>2, Effects
<1>3. CASE WriteLock(p) BY <1>3, Effects
<1>4. CASE ReadLock(p) BY <1>4, Effects
<1>5. CASE Stale(p) BY <1>5, Effects
<1>6. CASE UnlinkStale(p) BY <1>6, Effects
<1>7. CASE LockInode(p) BY <1>7, Effects
<1>8. CASE LookForSocket(p) BY <1>8, Effects
<1>9. CASE Connect(p)
  <2>1. ~Answered BY <1>9, Effects DEF Answered, Went
  <2> QED BY <1>9, <2>1, Effects
<1>10. CASE UnlinkSocket(p) BY <1>10, Effects
<1>11. CASE Bind(p) BY <1>11, Effects
<1>12. CASE Listen(p) BY <1>12, Effects
<1>13. CASE SocketInode(p) BY <1>13, Effects
<1>14. CASE Yield(p) BY <1>14, Effects
<1>15. CASE Refuse(p) BY <1>15 DEF Refuse
<1> QED
  BY <1>1, <1>2, <1>3, <1>4, <1>5, <1>6, <1>7, <1>8, <1>9, <1>10, <1>11, <1>12, <1>13, <1>14,
     <1>15 DEF Acquire

(* Two on their way: whatever p does, both can still yield to each other - *)
(* or p has given up, and q is alone and serves.                           *)
LEMMA PairStep ==
  ASSUME TypeInv, Locals, Complete, NEW p \in Procs, NEW q \in Procs, p # q,
         Alive(p), Alive(q), \A r \in Procs : Alive(r) => r \in {p, q},
         Yields(p, q), Yields(q, p), Acquire(p)
  PROVE  /\ Complete' /\ Alive(q)'
         /\ Alive(p)' => Yields(p, q)' /\ Yields(q, p)'
         /\ ~Alive(p)' => Good(q)'
<1> USE LockAssumption
<1> USE DEF TypeInv, Locals, Complete, Good, Yields, Alive, At, Over, Locking, Past, Bound,
        LockExists, SocketExists, NoFile, Keeps, Does
<1>1. CASE CreateLock(p)
  <2>1. Complete' /\ Alive(q)' BY <1>1, Effects
  <2>2. Yields(p, q)' BY <1>1, Effects
  <2>3. Yields(q, p)' BY <1>1, Effects
  <2>4. Alive(p)' BY <1>1, Effects
  <2> QED BY <2>1, <2>2, <2>3, <2>4
<1>2. CASE LockTaken(p)
  <2>1. Complete' /\ Alive(q)' BY <1>2, Effects
  <2>2. Yields(p, q)' BY <1>2, Effects
  <2>3. Yields(q, p)' BY <1>2, Effects
  <2>4. Alive(p)' BY <1>2, Effects
  <2> QED BY <2>1, <2>2, <2>3, <2>4
<1>3. CASE WriteLock(p)
  <2>1. Complete' /\ Alive(q)' BY <1>3, Effects
  <2>2. Yields(p, q)' BY <1>3, Effects
  <2>3. Yields(q, p)' BY <1>3, Effects
  <2>4. Alive(p)' BY <1>3, Effects
  <2> QED BY <2>1, <2>2, <2>3, <2>4
<1>4. CASE ReadLock(p)
  <2>1. Complete' /\ Alive(q)' BY <1>4, Effects
  <2>2. Yields(p, q)' BY <1>4, Effects
  <2>3. Yields(q, p)' BY <1>4, Effects
  <2>4. Alive(p)' BY <1>4, Effects
  <2> QED BY <2>1, <2>2, <2>3, <2>4
<1>5. CASE Stale(p)
  <2>1. Complete' /\ Alive(q)' BY <1>5, Effects
  <2>2. Yields(p, q)' BY <1>5, Effects
  <2>3. Yields(q, p)' BY <1>5, Effects
  <2>4. Alive(p)' BY <1>5, Effects
  <2> QED BY <2>1, <2>2, <2>3, <2>4
<1>6. CASE UnlinkStale(p)
  <2>1. Complete' /\ Alive(q)' BY <1>6, Effects
  <2>2. Yields(p, q)' BY <1>6, Effects
  <2>3. Yields(q, p)' BY <1>6, Effects
  <2>4. Alive(p)' BY <1>6, Effects
  <2> QED BY <2>1, <2>2, <2>3, <2>4
<1>7. CASE LockInode(p)
  <2>1. Complete' /\ Alive(q)' BY <1>7, Effects
  <2>2. Yields(p, q)' BY <1>7, Effects
  <2>3. Yields(q, p)' BY <1>7, Effects
  <2>4. Alive(p)' BY <1>7, Effects
  <2> QED BY <2>1, <2>2, <2>3, <2>4
<1>8. CASE LookForSocket(p)
  <2>1. Complete' /\ Alive(q)' BY <1>8, Effects
  <2>2. Yields(p, q)' BY <1>8, Effects
  <2>3. Yields(q, p)' BY <1>8, Effects
  <2>4. Alive(p)' BY <1>8, Effects
  <2> QED BY <2>1, <2>2, <2>3, <2>4
<1>9. CASE Connect(p)
  <2>1. Answered => proc[q].pc \in Bound /\ SocketExists BY <1>9, Effects DEF Answered, Went
  <2>2. SocketExists \/ At(q, "bind") BY <1>9, Effects
  <2>3. Complete' /\ Alive(q)' BY <1>9, Effects
  <2>4. Yields(p, q)' BY <1>9, Effects, <2>1, <2>2
  <2>5. Yields(q, p)' BY <1>9, Effects, <2>1
  <2>6. Alive(p)' BY <1>9, Effects
  <2> QED BY <2>3, <2>4, <2>5, <2>6
<1>10. CASE UnlinkSocket(p)
  <2>1. Complete' /\ Alive(q)' BY <1>10, Effects
  <2>2. Yields(p, q)' BY <1>10, Effects
  <2>3. Yields(q, p)' BY <1>10, Effects
  <2>4. Alive(p)' BY <1>10, Effects
  <2> QED BY <2>1, <2>2, <2>3, <2>4
<1>11. CASE Bind(p)
  <2>1. Complete' /\ Alive(q)' BY <1>11, Effects
  <2>2. Yields(p, q)' BY <1>11, Effects
  <2>3. Yields(q, p)' BY <1>11, Effects
  <2>4. Alive(p)' BY <1>11, Effects
  <2> QED BY <2>1, <2>2, <2>3, <2>4
<1>12. CASE Listen(p)
  <2>1. Complete' /\ Alive(q)' BY <1>12, Effects
  <2>2. Yields(p, q)' BY <1>12, Effects
  <2>3. Yields(q, p)' BY <1>12, Effects
  <2>4. Alive(p)' BY <1>12, Effects
  <2> QED BY <2>1, <2>2, <2>3, <2>4
<1>13. CASE SocketInode(p)
  <2>1. Complete' /\ Alive(q)' BY <1>13, Effects
  <2>2. Yields(p, q)' BY <1>13, Effects
  <2>3. Yields(q, p)' BY <1>13, Effects
  <2>4. Alive(p)' BY <1>13, Effects
  <2> QED BY <2>1, <2>2, <2>3, <2>4
<1>14. CASE Yield(p) BY <1>14, Effects
<1>15. CASE Refuse(p)
  <2>1. Does(p, "refused", 0, None, None, None) /\ UNCHANGED <<lock, sock>>
    BY <1>15, LeaveDrops DEF Refuse
  <2>2. Good(q)
    <3>1. CASE At(p, "create") /\ proc[p].attempt = 2 BY <3>1
    <3>2. CASE At(p, "read") /\ lock.owner = None BY <3>2
    <3>3. CASE At(p, "classify") /\ Alive(proc[p].owner) BY <3>3
    <3>4. CASE proc[p].pc \in {"unlink", "inode"} /\ ~LockExists BY <3>4
    <3>5. CASE proc[p].pc \in {"unsock", "stat"} /\ ~SocketExists BY <3>5
    <3> QED BY <1>15, <3>1, <3>2, <3>3, <3>4, <3>5 DEF Refuse
  <2>3. Complete' /\ Alive(q)' /\ ~Alive(p)' BY <2>1, <1>15 DEF Refuse
  <2>4. Good(q)' BY <2>1, <2>2
  <2> QED BY <2>3, <2>4
<1> QED
  BY <1>1, <1>2, <1>3, <1>4, <1>5, <1>6, <1>7, <1>8, <1>9, <1>10, <1>11, <1>12, <1>13, <1>14,
     <1>15 DEF Acquire

LEMMA DoomedStep ==
  ASSUME TypeInv, Doomed, NEW p \in Procs, Acquire(p)
  PROVE  Doomed'
<1> USE LockAssumption
<1> USE DEF TypeInv, Doomed, Alive, At, Over, LockExists, Keeps, Does
<1>1. CASE CreateLock(p) BY <1>1, Effects
<1>2. CASE LockTaken(p) BY <1>2, Effects
<1>3. CASE ReadLock(p) BY <1>3, Effects
<1>4. CASE Refuse(p)
  <2>1. Does(p, "refused", 0, None, None, None) /\ UNCHANGED lock
    BY <1>4, LeaveDrops DEF Refuse
  <2> QED BY <2>1
<1>5. proc[p].pc \in {"create", "read"}
  BY Effects DEF Acquire, Refuse
<1> QED BY <1>1, <1>2, <1>3, <1>4, <1>5, Effects DEF Acquire

(* A process of its own, or one that gave up, is none of the others'       *)
(* locals.                                                                 *)
LEMMA LocalsStep == ASSUME TypeInv, Locals, Next PROVE Locals'
<1> USE LockAssumption
<1> USE DEF TypeInv, Locals, Alive, At, Over, Bound, Went, LockExists, NoFile, Keeps, Does
<1>1. PICK p \in Procs : Start(p) \/ Acquire(p) \/ Drop(p) \/ Kill(p)
  BY DEF Next
<1>2. CASE Start(p) BY <1>2, Effects
<1>3. CASE CreateLock(p) BY <1>3, Effects
<1>4. CASE LockTaken(p) BY <1>4, Effects
<1>5. CASE WriteLock(p) BY <1>5, Effects
<1>6. CASE ReadLock(p) BY <1>6, Effects
<1>7. CASE Stale(p) BY <1>7, Effects
<1>8. CASE UnlinkStale(p) BY <1>8, Effects
<1>9. CASE LockInode(p) BY <1>9, Effects
<1>10. CASE LookForSocket(p) BY <1>10, Effects
<1>11. CASE Connect(p) BY <1>11, Effects
<1>12. CASE UnlinkSocket(p) BY <1>12, Effects
<1>13. CASE Bind(p) BY <1>13, Effects
<1>14. CASE Listen(p) BY <1>14, Effects
<1>15. CASE SocketInode(p) BY <1>15, Effects
<1>16. CASE Yield(p) BY <1>16, Effects
<1>17. CASE Refuse(p)
  <2>1. Does(p, "refused", 0, None, None, None) /\ lock' = lock BY <1>17, LeaveDrops DEF Refuse
  <2>2. ~At(p, "new") BY <1>17 DEF Refuse
  <2> QED BY <2>1, <2>2
<1>18. CASE RemoveLock(p)
  <2>1. Does(p, "ended", 0, None, None, None) /\ lock' = NoFile BY <1>18, LeaveDrops DEF RemoveLock
  <2>2. ~At(p, "new") BY <1>18 DEF RemoveLock
  <2> QED BY <2>1, <2>2
<1>19. CASE Kill(p)
  <2>1. Does(p, "killed", 0, None, None, None) /\ lock' = lock BY <1>19, LeaveDrops DEF Kill
  <2>2. ~At(p, "new") BY <1>19 DEF Kill
  <2> QED BY <2>1, <2>2
<1>20. CASE DropSocket(p)
  <2>1. At(p, "serving") /\ lock' = lock BY <1>20 DEF DropSocket
  <2>2. Keeps(p, "drop") \/ Keeps(p, "dropped") BY <1>20, GotoKeeps DEF DropSocket
  <2> QED BY <2>1, <2>2
<1>21. CASE RemoveSocket(p)
  <2>1. At(p, "drop") /\ lock' = lock BY <1>21 DEF RemoveSocket
  <2>2. Keeps(p, "dropped") BY <1>21, GotoKeeps DEF RemoveSocket
  <2> QED BY <2>1, <2>2
<1>22. CASE DropLock(p)
  <2>1. At(p, "dropped") /\ lock' = lock BY <1>22 DEF DropLock
  <2>2. Keeps(p, "unlock") \/ Does(p, "ended", 0, None, None, None)
    BY <1>22, GotoKeeps, LeaveDrops DEF DropLock
  <2> QED BY <2>1, <2>2
<1> QED
  BY <1>1, <1>2, <1>3, <1>4, <1>5, <1>6, <1>7, <1>8, <1>9, <1>10, <1>11, <1>12, <1>13, <1>14, <1>15, <1>16, <1>17, <1>18, <1>19, <1>20, <1>21, <1>22 DEF Acquire, Drop

(* A process started alone finds no lock, one whose owner is gone, or the  *)
(* incomplete one that nobody writes; a second one finds the first alone.  *)
LEMMA StartStep ==
  ASSUME TypeInv, Locals, Race, NEW p \in Procs, Start(p)
  PROVE  Race'
<1> USE LockAssumption
<1> USE DEF TypeInv, Locals, Alive, At, Over, Keeps, Does, LockExists, SocketExists
<1>1. At(p, "new") /\ Keeps(p, "create") /\ UNCHANGED <<lock, sock>> BY Effects
<1>2. racing' = IF \A q \in Procs : ~Alive(q) THEN {p}
                ELSE IF racing = {} THEN {} ELSE racing \cup {p}
  BY DEF Start
<1> SUFFICES ASSUME NEW x \in Procs, NEW y \in Procs, racing' = {x, y}
             PROVE  /\ \A r \in Procs : Alive(r)' => r \in {x, y}
                    /\ (Doomed \/ Going(x, y))'
  BY DEF Race
<1>3. CASE \A q \in Procs : ~Alive(q)
  <2>1. x = p /\ y = p BY <1>2, <1>3
  <2>2. \A r \in Procs : Alive(r)' => r = p BY <1>1, <1>3
  <2>3. CASE LockExists /\ lock.owner = None
    <3>1. Doomed' BY <1>1, <2>2, <2>3 DEF Doomed
    <3> QED BY <2>1, <2>2, <3>1
  <2>4. CASE ~(LockExists /\ lock.owner = None)
    <3>1. Complete' BY <1>1, <1>3, <2>4 DEF Complete
    <3>2. Alive(p)' /\ Good(p)' BY <1>1 DEF Good, Locking, Past, Bound
    <3> QED BY <2>1, <2>2, <3>1, <3>2 DEF Going
  <2> QED BY <2>3, <2>4
<1>4. CASE ~(\A q \in Procs : ~Alive(q))
  <2>1. racing # {} /\ racing' = racing \cup {p} BY <1>2, <1>4
  <2>2. PICK u \in Procs, v \in Procs : racing = {u, v}
    <3>1. racing \subseteq {x, y} BY <2>1
    <3>2. CASE x \in racing /\ y \in racing BY <3>1, <3>2
    <3>3. CASE x \in racing /\ y \notin racing
      <4>1. racing = {x, x} BY <3>1, <3>3
      <4> QED BY <4>1
    <3>4. CASE x \notin racing /\ y \in racing
      <4>1. racing = {y, y} BY <3>1, <3>4
      <4> QED BY <4>1
    <3> QED BY <2>1, <3>1, <3>2, <3>3, <3>4
  <2>3. /\ \A r \in Procs : Alive(r) => r \in {u, v}
        /\ Doomed \/ Going(u, v)
    BY <2>2 DEF Race
  <2>4. \A r \in Procs : Alive(r)' => r \in {x, y} BY <1>1, <2>1, <2>2, <2>3
  <2>5. CASE Doomed
    <3>1. Doomed' BY <1>1, <2>5 DEF Doomed
    <3> QED BY <2>4, <3>1
  <2>6. CASE Going(u, v)
    <3>1. PICK q \in Procs : /\ racing' = {p, q} /\ q # p
                             /\ Alive(q) /\ Good(q) /\ \A r \in Procs : Alive(r) => r = q
      <4>1. CASE u # v /\ Alive(u) /\ Alive(v)
        <5>1. p # u /\ p # v BY <4>1, <1>1
        <5>2. racing' = {u, v, p} BY <2>1, <2>2
        <5> QED BY <4>1, <5>1, <5>2
      <4>2. CASE ~(u # v /\ Alive(u) /\ Alive(v))
        <5>1. PICK q \in {u, v} : Alive(q) /\ Good(q) BY <2>6, <4>2 DEF Going
        <5>2. q # p BY <5>1, <1>1
        <5>3. \A r \in Procs : Alive(r) => r = q BY <4>2, <5>1, <2>3
        <5>4. racing' = {u, v, p} BY <2>1, <2>2
        <5>5. racing' = {p, q}
          <6>1. CASE u = v BY <6>1, <5>1, <5>4
          <6>2. CASE u # v
            <7>1. PICK w \in {u, v} : w # q BY <6>2
            <7>2. {u, v} = {q, w} BY <5>1, <7>1
            <7>3. racing' = {q, w, p} BY <5>4, <7>2
            <7>4. w = p BY <7>1, <7>3, <5>2
            <7> QED BY <7>3, <7>4
          <6> QED BY <6>1, <6>2
        <5> QED BY <5>1, <5>2, <5>3, <5>5
      <4> QED BY <4>1, <4>2
    <3>2. Complete' BY <1>1, <2>6 DEF Going, Complete
    <3>3. Alive(p)' /\ Alive(q)' BY <1>1, <3>1
    <3>4. Yields(p, q)'
      <4>1. proc'[p].attempt = 0 BY <1>1
      <4> QED BY <1>1, <3>1, <4>1 DEF Yields, Locking
    <3>5. Yields(q, p)'
      <4>1. proc'[q] = proc[q] BY <1>1, <3>1
      <4>2. Alive(lock.owner) /\ lock.owner # None => lock.owner = q BY <3>1
      <4>3. Complete BY <2>6 DEF Going
      <4> QED BY <1>1, <3>1, <4>1, <4>2, <4>3 DEF Yields, Good, Complete, Locking, Past, Bound
    <3>6. {x, y} = {p, q} BY <3>1
    <3>7. (x = p /\ y = q) \/ (x = q /\ y = p) BY <3>6
    <3> QED BY <2>4, <3>1, <3>2, <3>3, <3>4, <3>5, <3>7 DEF Going
  <2> QED BY <2>3, <2>5, <2>6
<1> QED BY <1>3, <1>4

LEMMA RaceStep == ASSUME TypeInv, Locals, Race, Next PROVE Race'
<1>1. PICK p \in Procs : Start(p) \/ Acquire(p) \/ Drop(p) \/ Kill(p)
  BY DEF Next
<1>2. CASE Start(p) BY <1>2, StartStep
<1>3. CASE Drop(p) \/ Kill(p)
  <2>1. racing' = {}
    BY <1>3 DEF Drop, DropSocket, RemoveSocket, DropLock, RemoveLock, Kill
  <2> QED BY <2>1 DEF Race
<1>4. CASE Acquire(p)
  <2>1. racing' = racing
    BY <1>4 DEF Acquire, CreateLock, LockTaken, WriteLock, ReadLock, Stale, UnlinkStale,
       LockInode, LookForSocket, Connect, UnlinkSocket, Bind, Listen, SocketInode, Yield, Refuse
  <2>2. Alive(p)
    BY <1>4, Effects DEF Acquire, Refuse, Alive, At, Over
  <2>3. \A r \in Procs : r # p => proc'[r] = proc[r]
    <3>1. Refuse(p) => \A r \in Procs : r # p => proc'[r] = proc[r]
      BY LeaveDrops DEF Refuse, Does
    <3> QED BY <1>4, <3>1, Effects DEF Acquire, Keeps, Does
  <2> SUFFICES ASSUME NEW x \in Procs, NEW y \in Procs, racing' = {x, y}
               PROVE  /\ \A r \in Procs : Alive(r)' => r \in {x, y}
                      /\ (Doomed \/ Going(x, y))'
    BY DEF Race
  <2>4. /\ \A r \in Procs : Alive(r) => r \in {x, y}
        /\ Doomed \/ Going(x, y)
    BY <2>1 DEF Race
  <2>5. \A r \in Procs : Alive(r)' => r \in {x, y}
    BY <2>2, <2>3, <2>4 DEF Alive
  <2>6. CASE Doomed BY <1>4, <2>5, <2>6, DoomedStep
  <2>7. CASE Going(x, y)
    <3>1. PICK q \in {x, y} : {x, y} = {p, q} /\ (q = p => x = y)
      <4>1. p \in {x, y} BY <2>2, <2>4
      <4>2. CASE p = x BY <4>2
      <4>3. CASE p = y BY <4>3
      <4> QED BY <4>1, <4>2, <4>3
    <3>2. Complete BY <2>7 DEF Going
    <3>3. CASE q # p /\ Alive(q)
      <4>1. Yields(p, q) /\ Yields(q, p) BY <2>2, <2>7, <3>1, <3>3 DEF Going
      <4>2. \A r \in Procs : Alive(r) => r \in {p, q} BY <2>4, <3>1
      <4>3. /\ Complete' /\ Alive(q)'
            /\ Alive(p)' => Yields(p, q)' /\ Yields(q, p)'
            /\ ~Alive(p)' => Good(q)'
        BY <1>4, <2>2, <3>2, <3>3, <4>1, <4>2, PairStep
      <4>4. (x = p /\ y = q) \/ (x = q /\ y = p) BY <3>1, <3>3
      <4>5. Going(x, y)' BY <3>3, <4>3, <4>4 DEF Going
      <4> QED BY <2>5, <4>5
    <3>4. CASE ~(q # p /\ Alive(q))
      <4>1. \A r \in Procs : Alive(r) => r = p BY <2>4, <3>1, <3>4
      <4>2. ~(x # y /\ Alive(x) /\ Alive(y)) BY <4>1
      <4>3. Good(p) BY <2>7, <4>1, <4>2 DEF Going
      <4>4. Complete' /\ Alive(p)' /\ Good(p)' BY <1>4, <3>2, <4>1, <4>3, SoloStep
      <4>5. \A r \in Procs : Alive(r)' => r = p BY <2>3, <4>1 DEF Alive
      <4>6. ~(x # y /\ Alive(x) /\ Alive(y))' BY <4>5
      <4>7. p \in {x, y} BY <3>1
      <4>8. Going(x, y)' BY <4>4, <4>6, <4>7 DEF Going
      <4> QED BY <2>5, <4>8
    <3> QED BY <3>3, <3>4
  <2> QED BY <2>4, <2>6, <2>7
<1> QED BY <1>1, <1>2, <1>3, <1>4

(* Of one or two supervisors started after the others are gone, one gets   *)
(* to serve, whatever stale lock and socket they find and however their    *)
(* steps in RuntimeGuard::acquire interleave - unless the lock was left    *)
(* incomplete.                                                             *)
THEOREM SomebodyServesHolds == Spec => []SomebodyServes
<1>1. Init => TypeInv /\ Locals /\ Race
  <2>1. Init => TypeInv BY InitL DEF LInv
  <2>2. Init => Locals
    BY LockAssumption DEF Init, Locals, Local, NoFile, At, Alive, Over, LockExists
  <2>3. Init => Race BY DEF Init, Race
  <2> QED BY <2>1, <2>2, <2>3
<1>2. TypeInv /\ Locals /\ Race /\ [Next]_vars => (TypeInv /\ Locals /\ Race)'
  <2> SUFFICES ASSUME TypeInv, Locals, Race, [Next]_vars PROVE (TypeInv /\ Locals /\ Race)'
    OBVIOUS
  <2>1. CASE Next BY <2>1, TypeStep, LocalsStep, RaceStep
  <2>2. CASE UNCHANGED vars
    <3>1. TypeInv' BY <2>2 DEF vars, TypeInv
    <3>2. Locals' BY <2>2 DEF vars, Locals, Alive, At, LockExists
    <3>3. Race'
      BY <2>2 DEF vars, Race, Doomed, Going, Complete, Yields, Good, Alive, At, LockExists,
         SocketExists
    <3> QED BY <3>1, <3>2, <3>3
  <2> QED BY <2>1, <2>2
<1>3. Race => SomebodyServes
  <2> SUFFICES ASSUME Race, Quiet, racing # {}, NEW u \in Procs, NEW v \in Procs,
                      racing \subseteq {u, v}, LockExists => lock.owner # None
               PROVE  Serving # {}
    BY DEF SomebodyServes
  <2>1. PICK x \in Procs, y \in Procs : racing = {x, y}
    <3>1. CASE u \in racing /\ v \in racing BY <3>1
    <3>2. CASE u \in racing /\ v \notin racing
      <4>1. racing = {u, u} BY <3>2
      <4> QED BY <4>1
    <3>3. CASE u \notin racing /\ v \in racing
      <4>1. racing = {v, v} BY <3>3
      <4> QED BY <4>1
    <3> QED BY <3>1, <3>2, <3>3
  <2>2. Going(x, y) BY <2>1 DEF Race, Doomed
  <2>3. PICK r \in Procs : Alive(r)
    BY <2>2 DEF Going
  <2>4. proc[r].pc = "serving" BY <2>3 DEF Quiet, Alive
  <2> QED BY <2>4 DEF Serving, At
<1> QED BY <1>1, <1>2, <1>3, PTL DEF Spec

===============================================================================
