------------------------------ MODULE HostProofs ------------------------------
(***************************************************************************)
(* The database is migrated once and inspected without being created, no   *)
(* service is left without its unit file, and a healthy report is followed *)
(* by a submission that is saved: for any number of processes, faults and  *)
(* migrations.                                                             *)
(***************************************************************************)
EXTENDS Host, TLAPS

Pc == ServicePc \cup {"idle", "config", "dirs", "file", "prepare", "observe", "version",
                      "begin", "migrate", "opened", "acknowledge"}

Invocation == [op : Op \cup {"none"}, pc : Pc, cur : Nat, created : BOOLEAN, left : Nat,
               fails : SUBSET Checks, res : Result, sure : Nat]

Types ==
  /\ inv \in [Clis -> Invocation]
  /\ faults \in Nat
  /\ healthy \in Nat
  /\ db \in Database
  /\ svc \in ServiceState
  /\ overlapped \in BOOLEAN

(* A process about to migrate starts from a version that is not ahead of   *)
(* the file's.                                                             *)
Behind ==
  \A c \in Clis : inv[c].pc \in {"begin", "migrate"} =>
    inv[c].cur < Target /\ inv[c].cur <= db.version

(* Until two overlap, one process at a time works on the service.          *)
Alone ==
  /\ \A c \in Clis : inv[c].pc \in ServicePc => inv[c].op \in ServiceOp
  /\ \A c \in Clis : inv[c].pc = "idle" => inv[c].op = "none"
  /\ ~overlapped =>
       \A c, d \in Clis : (inv[c].op \in ServiceOp /\ inv[d].op \in ServiceOp) => c = d

(* Until then, the unit file is there before the manager is told of it,    *)
(* and the manager has forgotten it before it goes; launchd does not go    *)
(* away.                                                                   *)
FileFirst ==
  /\ ~overlapped =>
       \A c \in Clis : inv[c].pc \in {"i_mode", "i_reload", "i_enable"} => svc.unit # "none"
  /\ ~overlapped => \A c \in Clis : inv[c].pc = "u_remove" => ~svc.reg
  /\ svc.platform = "launchd" => svc.avail

IInv == Types /\ Behind /\ MigratedOnce /\ Alone /\ FileFirst /\ NoOrphanService

-------------------------------------------------------------------------------
(* What a step does to the processes.                                      *)
Moves(c) ==
  /\ inv' \in [Clis -> Invocation]
  /\ \A d \in Clis \ {c} : inv'[d] = inv[d]

LEMMA GoesMoves ==
  ASSUME Types, NEW c \in Clis, NEW pc \in Pc, Goes(c, pc)
  PROVE  Moves(c) /\ inv'[c].pc = pc /\ inv'[c].op = inv[c].op /\ inv'[c].cur = inv[c].cur
BY DEF Types, Goes, Moves, Invocation

LEMMA EndsMoves ==
  ASSUME Types, NEW c \in Clis, NEW res \in Result, Ends(c, res)
  PROVE  Moves(c) /\ inv'[c].pc = "idle" /\ inv'[c].op = "none"
<1>1. NoInvocation \in Invocation
  BY DEF NoInvocation, Invocation, Pc, Result
<1> DEFINE over == [NoInvocation EXCEPT !.res = res,
                                        !.sure = IF inv[c].op = "submit" THEN inv[c].sure ELSE 0]
<1>2. over \in Invocation /\ over.pc = "idle" /\ over.op = "none"
  BY <1>1 DEF Types, NoInvocation, Invocation
<1>3. inv' = [inv EXCEPT ![c] = over]
  BY DEF Ends
<1> HIDE DEF over
<1> QED
  BY <1>2, <1>3 DEF Types, Moves

(* The process at work on the service goes on, or is over.                 *)
Advances(c) ==
  /\ Moves(c)
  /\ \/ inv'[c].pc \in ServicePc /\ inv'[c].op = inv[c].op
     \/ inv'[c].pc = "idle" /\ inv'[c].op = "none"

LEMMA GoesAdvances ==
  ASSUME Types, NEW c \in Clis, NEW pc \in ServicePc, Goes(c, pc)
  PROVE  Advances(c) /\ inv'[c].pc = pc
BY GoesMoves DEF Advances, Pc

LEMMA EndsAdvances ==
  ASSUME Types, NEW c \in Clis, NEW res \in Result, Ends(c, res)
  PROVE  Advances(c) /\ inv'[c].pc = "idle"
BY EndsMoves DEF Advances

LEMMA UninstallAdvances ==
  ASSUME Types, NEW c \in Clis, UninstallOk(c) \/ UninstallErr(c)
  PROVE  Advances(c) /\ inv'[c].pc \in {"idle", "u_verify"}
<1>1. {"rolled_back", "rollback_failed", "capability"} \subseteq Result /\ "u_verify" \in ServicePc
  BY DEF Result, ServicePc
<1>2. CASE UninstallOk(c)
  BY <1>1, <1>2, GoesAdvances, EndsAdvances DEF UninstallOk
<1>3. CASE UninstallErr(c)
  BY <1>1, <1>3, EndsAdvances DEF UninstallErr
<1> QED
  BY <1>2, <1>3

(* A fault is counted, or there is none.                                   *)
LEMMA FaultsCount ==
  ASSUME Types, Fault \/ Keep
  PROVE  faults' \in Nat
BY DEF Types, Fault, Keep

(* What a step does to the service, apart from its files and the manager's *)
(* knowledge of them.                                                      *)
SvcMoves ==
  svc' \in ServiceState /\ svc'.platform = svc.platform /\ svc'.avail = svc.avail

SameSvc == SvcMoves /\ svc'.unit = svc.unit /\ svc'.reg = svc.reg

LEMMA FilesMove ==
  ASSUME Types, NEW c \in Clis
  PROVE  /\ svc' = Closed(c) => SameSvc
         /\ svc' = WithoutTemporary => SameSvc
         /\ svc' = Unlinked => SvcMoves /\ svc'.reg = svc.reg
         /\ UNCHANGED svc => SameSvc
BY DEF Types, ServiceState, SvcMoves, SameSvc, Closed, WithoutTemporary, Unlinked

(* What the step of a service operation owes the invariant.                *)
LEMMA ServiceFrame ==
  ASSUME IInv, NEW c \in Clis, inv[c].pc \in ServicePc, Advances(c), SvcMoves,
         faults' \in Nat, UNCHANGED <<db, healthy, overlapped>>,
         ~overlapped =>
           /\ inv'[c].pc \in {"i_mode", "i_reload", "i_enable"} => svc'.unit # "none"
           /\ inv'[c].pc = "u_remove" => ~svc'.reg
           /\ svc'.reg => svc'.unit # "none"
  PROVE  IInv'
<1>1. Types'
  BY DEF IInv, Types, Advances, Moves, SvcMoves
<1>2. \A d \in Clis \ {c} : inv'[d] = inv[d]
  BY DEF Advances, Moves
<1>3. ~overlapped => \A d \in Clis \ {c} : inv[d].pc \notin ServicePc
  BY DEF IInv, Alone
<1>4. Behind'
  BY <1>2 DEF IInv, Behind, Advances, ServicePc
<1>a. "idle" \notin ServicePc /\ "none" \notin ServiceOp
  BY DEF ServicePc, ServiceOp
<1>5. Alone'
  BY <1>2, <1>a DEF IInv, Alone, Advances
<1>6. FileFirst'
  BY <1>2, <1>3 DEF IInv, FileFirst, ServicePc, SvcMoves
<1> QED
  BY <1>1, <1>4, <1>5, <1>6 DEF IInv, MigratedOnce, NoOrphanService

(* ... when it touches neither the unit nor what the manager knows.        *)
LEMMA SameFrame ==
  ASSUME IInv, NEW c \in Clis, inv[c].pc \in ServicePc, Advances(c), SameSvc,
         faults' \in Nat, UNCHANGED <<db, healthy, overlapped>>,
         inv'[c].pc \notin {"i_mode", "i_reload", "i_enable", "u_remove"}
  PROVE  IInv'
BY ServiceFrame DEF SameSvc, IInv, NoOrphanService

LEMMA InstallKeeps ==
  ASSUME IInv, NEW c \in Clis, UNCHANGED <<db, healthy, overlapped>>,
         \/ InstallStatus(c) \/ CheckUnit(c) \/ CheckAgent(c) \/ CreateTemporary(c)
         \/ WriteTemporary(c) \/ RenameUnit(c) \/ SetMode(c) \/ daemon_reload(c) \/ bootstrap(c)
         \/ enable_now(c) \/ kickstart(c) \/ VerifyInstall(c)
  PROVE  IInv'
<1>0. Types /\ NoOrphanService /\ svc \in ServiceState
  BY DEF IInv, Types
<1>a. {"capability", "unchanged", "changed"} \subseteq Result
  BY DEF Result
<1>b. \A pc \in {"i_check", "i_create", "i_write", "i_rename", "i_mode", "i_reload", "i_enable",
                 "i_verify", "u_check"} : pc \in ServicePc
  BY DEF ServicePc
<1>1. CASE InstallStatus(c)
  <2>1. Advances(c) /\ inv'[c].pc \in {"idle", "i_check"}
    BY <1>0, <1>a, <1>b, <1>1, GoesAdvances, EndsAdvances DEF InstallStatus
  <2> QED
    BY <1>0, <1>1, <2>1, FaultsCount, FilesMove, SameFrame DEF InstallStatus, At, ServicePc
<1>2. CASE CheckUnit(c) \/ CheckAgent(c)
  <2>1. Advances(c) /\ inv'[c].pc \in {"i_verify", "i_create", "u_check"}
    BY <1>0, <1>b, <1>2, GoesAdvances DEF CheckUnit, CheckAgent
  <2> QED
    BY <1>0, <1>2, <2>1, FaultsCount, FilesMove, SameFrame DEF CheckUnit, CheckAgent, At, ServicePc
<1>3. CASE CreateTemporary(c)
  <2>1. Advances(c) /\ inv'[c].pc \in {"i_write", "u_check"}
    BY <1>0, <1>b, <1>3, GoesAdvances DEF CreateTemporary
  <2>2. svc' = [svc EXCEPT !.tmp = "part", !.tmpBy = c] => SameSvc
    BY <1>0 DEF SameSvc, SvcMoves, ServiceState
  <2> QED
    BY <1>0, <1>3, <2>1, <2>2, FaultsCount, FilesMove, SameFrame DEF CreateTemporary, At, ServicePc
<1>4. CASE WriteTemporary(c)
  <2>1. Advances(c) /\ inv'[c].pc \in {"i_rename", "u_check"}
    BY <1>0, <1>b, <1>4, GoesAdvances DEF WriteTemporary
  <2>2. SvcMoves /\ svc'.reg = svc.reg /\ svc'.unit \in {svc.unit, "ours"}
    <3>1. CASE svc' = [Closed(c) EXCEPT !.tmp = "none", !.tmpBy = None]
      BY <1>0, <3>1 DEF Closed, SvcMoves, ServiceState
    <3>2. CASE svc' = [svc EXCEPT !.tmp = "full", !.tmpBy = None]
      BY <1>0, <3>2 DEF SvcMoves, ServiceState
    <3>3. CASE svc' = [svc EXCEPT !.unit = "ours", !.unitBy = None]
      BY <1>0, <3>3 DEF SvcMoves, ServiceState
    <3>4. CASE svc' = svc
      BY <1>0, <3>4 DEF SvcMoves
    <3> QED
      BY <1>4, <3>1, <3>2, <3>3, <3>4 DEF WriteTemporary
  <2>3. faults' \in Nat /\ inv[c].pc \in ServicePc
    BY <1>0, <1>4, FaultsCount DEF WriteTemporary, At, ServicePc
  <2> QED
    BY <1>0, <2>1, <2>2, <2>3, ServiceFrame DEF NoOrphanService
<1>5. CASE RenameUnit(c)
  <2>1. faults' \in Nat /\ inv[c].pc \in ServicePc
    BY <1>0, <1>5, FaultsCount DEF RenameUnit, At, ServicePc
  <2>2. CASE Goes(c, "u_check") /\ svc' = WithoutTemporary
    <3>1. Advances(c) /\ inv'[c].pc = "u_check"
      BY <1>0, <1>b, <2>2, GoesAdvances
    <3> QED
      BY <1>0, <2>1, <2>2, <3>1, FilesMove, SameFrame
  <2>3. CASE /\ Goes(c, "i_mode")
             /\ svc' = [WithoutTemporary EXCEPT !.unit = IF svc.tmp = "full" THEN "ours" ELSE "part",
                                                !.unitBy = svc.tmpBy]
    <3>1. Advances(c) /\ inv'[c].pc = "i_mode"
      BY <1>0, <1>b, <2>3, GoesAdvances
    <3>2. SvcMoves /\ svc'.unit # "none"
      BY <1>0, <2>3 DEF WithoutTemporary, SvcMoves, ServiceState
    <3> QED
      BY <2>1, <3>1, <3>2, ServiceFrame
  <2> QED
    BY <1>5, <2>2, <2>3 DEF RenameUnit
<1>6. CASE SetMode(c) \/ daemon_reload(c)
  <2>1. Advances(c) /\ inv'[c].pc \in {"i_reload", "i_enable", "u_check"}
    BY <1>0, <1>b, <1>6, GoesAdvances DEF SetMode, daemon_reload
  <2>2. ~overlapped => svc.unit # "none"
    BY <1>6 DEF SetMode, daemon_reload, At, IInv, FileFirst
  <2>3. faults' \in Nat /\ inv[c].pc \in ServicePc /\ SameSvc
    BY <1>0, <1>6, FaultsCount, FilesMove DEF SetMode, daemon_reload, At, ServicePc, Fails
  <2> QED
    BY <1>0, <2>1, <2>2, <2>3, ServiceFrame DEF SameSvc, NoOrphanService
<1>7. CASE bootstrap(c) \/ enable_now(c) \/ kickstart(c)
  <2>1. Advances(c) /\ inv'[c].pc \in {"i_enable", "i_verify", "u_check"}
    BY <1>0, <1>b, <1>7, GoesAdvances DEF bootstrap, enable_now, kickstart
  <2>2. SvcMoves /\ svc'.unit = svc.unit
    <3>1. CASE bootstrap(c)
      BY <1>0, <3>1 DEF bootstrap, ServiceState, SvcMoves
    <3>2. CASE enable_now(c)
      BY <1>0, <3>2 DEF enable_now, ServiceState, SvcMoves
    <3>3. CASE kickstart(c)
      BY <1>0, <3>3 DEF kickstart, ServiceState, SvcMoves
    <3> QED
      BY <1>7, <3>1, <3>2, <3>3
  <2>3. (~overlapped => svc.unit # "none") /\ inv[c].pc \in ServicePc
    BY <1>7 DEF bootstrap, enable_now, kickstart, At, ServicePc, IInv, FileFirst
  <2>4. faults' \in Nat
    BY <1>0, <1>7, FaultsCount DEF bootstrap, enable_now, kickstart, Fails
  <2> QED
    BY <2>1, <2>2, <2>3, <2>4, ServiceFrame
<1>8. CASE VerifyInstall(c)
  <2>1. Advances(c) /\ inv'[c].pc \in {"idle", "u_check"}
    BY <1>0, <1>a, <1>b, <1>8, GoesAdvances, EndsAdvances DEF VerifyInstall
  <2> QED
    BY <1>0, <1>8, <2>1, FaultsCount, FilesMove, SameFrame DEF VerifyInstall, At, ServicePc
<1> QED
  BY <1>1, <1>2, <1>3, <1>4, <1>5, <1>6, <1>7, <1>8

LEMMA UninstallKeeps ==
  ASSUME IInv, NEW c \in Clis, UNCHANGED <<db, healthy, overlapped>>,
         \/ UninstallStatus(c) \/ UninstallCheck(c) \/ disable_now(c) \/ bootout(c)
         \/ RemoveUnit(c) \/ RemoveAgent(c) \/ ReloadAfter(c) \/ VerifyUninstall(c)
  PROVE  IInv'
<1>0. Types /\ NoOrphanService /\ svc \in ServiceState
  BY DEF IInv, Types
<1>a. {"capability", "unchanged", "changed"} \subseteq Result
  BY DEF Result
<1>b. \A pc \in {"u_check", "u_disable", "u_remove", "u_reload"} : pc \in ServicePc
  BY DEF ServicePc
<1>1. CASE UninstallStatus(c) \/ UninstallCheck(c) \/ VerifyUninstall(c)
  <2>1. Advances(c) /\ inv'[c].pc \in {"idle", "u_check", "u_disable", "u_verify"}
    BY <1>0, <1>a, <1>b, <1>1, GoesAdvances, EndsAdvances, UninstallAdvances
       DEF UninstallStatus, UninstallCheck, VerifyUninstall
  <2> QED
    BY <1>0, <1>1, <2>1, FaultsCount, FilesMove, SameFrame
       DEF UninstallStatus, UninstallCheck, VerifyUninstall, At, ServicePc
<1>2. CASE disable_now(c)
  <2>1. Advances(c) /\ inv'[c].pc \in {"idle", "u_remove", "u_verify"}
    BY <1>0, <1>b, <1>2, GoesAdvances, UninstallAdvances DEF disable_now
  <2>2. SvcMoves /\ svc'.unit = svc.unit /\ svc'.reg \in {svc.reg, FALSE}
    BY <1>0, <1>2 DEF disable_now, ServiceState, SvcMoves
  <2>3. inv'[c].pc = "u_remove" => ~svc'.reg
    BY <1>0, <1>2, UninstallAdvances DEF disable_now, ServiceState
  <2>4. faults' \in Nat /\ inv[c].pc \in ServicePc
    BY <1>0, <1>2, FaultsCount DEF disable_now, At, ServicePc, Fails
  <2> QED
    BY <1>0, <2>1, <2>2, <2>3, <2>4, ServiceFrame DEF NoOrphanService
<1>3. CASE bootout(c)
  <2>1. Advances(c) /\ inv'[c].pc \in {"idle", "u_remove", "u_verify"}
    BY <1>0, <1>b, <1>3, GoesAdvances, UninstallAdvances DEF bootout
  <2>2. SvcMoves /\ svc'.unit = svc.unit /\ svc'.reg \in {svc.reg, FALSE}
    BY <1>0, <1>3 DEF bootout, ServiceState, SvcMoves
  <2>3. (~overlapped /\ ~Refuses /\ ~running) => ~svc.reg
    BY <1>0, <1>3 DEF bootout, Refuses, running, manager_available, is_loaded, ServiceState,
                      NoOrphanService, IInv, FileFirst
  <2>4. (~overlapped /\ inv'[c].pc = "u_remove") => ~svc'.reg
    BY <1>0, <1>3, <2>3, UninstallAdvances DEF bootout, ServiceState
  <2>5. faults' \in Nat /\ inv[c].pc \in ServicePc
    BY <1>0, <1>3, FaultsCount DEF bootout, At, ServicePc
  <2> QED
    BY <1>0, <2>1, <2>2, <2>4, <2>5, ServiceFrame DEF NoOrphanService
<1>4. CASE RemoveUnit(c) \/ RemoveAgent(c)
  <2>1. Advances(c) /\ inv'[c].pc \in {"idle", "u_reload", "u_verify"}
    BY <1>0, <1>b, <1>4, GoesAdvances, UninstallAdvances DEF RemoveUnit, RemoveAgent
  <2>2. SvcMoves /\ svc'.reg = svc.reg
    BY <1>0, <1>4, FilesMove DEF RemoveUnit, RemoveAgent, SameSvc
  <2>3. ~overlapped => ~svc.reg
    BY <1>4 DEF RemoveUnit, RemoveAgent, At, IInv, FileFirst
  <2>4. faults' \in Nat /\ inv[c].pc \in ServicePc
    BY <1>0, <1>4, FaultsCount DEF RemoveUnit, RemoveAgent, At, ServicePc
  <2> QED
    BY <2>1, <2>2, <2>3, <2>4, ServiceFrame
<1>5. CASE ReloadAfter(c)
  <2>1. Advances(c) /\ inv'[c].pc \in {"idle", "u_verify"}
    BY <1>0, <1>5, UninstallAdvances DEF ReloadAfter
  <2> QED
    BY <1>0, <1>5, <2>1, FaultsCount, FilesMove, SameFrame DEF ReloadAfter, At, ServicePc, Fails
<1> QED
  BY <1>1, <1>2, <1>3, <1>4, <1>5

-------------------------------------------------------------------------------
(* What any other step of a process owes the invariant.                    *)
LEMMA StepFrame ==
  ASSUME IInv, NEW c \in Clis, Moves(c),
         inv'[c].pc = "idle" => inv'[c].op = "none",
         inv'[c].pc \in ServicePc =>
           inv'[c].pc \in {"i_status", "u_status"} /\ inv'[c].op \in ServiceOp,
         inv'[c].op \in ServiceOp =>
           \/ inv'[c].op = inv[c].op \/ overlapped'
           \/ \A d \in Clis : inv[d].op \notin ServiceOp,
         inv'[c].pc \in {"begin", "migrate"} => inv'[c].cur < Target /\ inv'[c].cur <= db'.version,
         db' \in Database, db.version <= db'.version, MigratedOnce',
         SameSvc, overlapped' \in BOOLEAN, overlapped => overlapped',
         faults' \in Nat, healthy' \in Nat
  PROVE  IInv'
<1>1. Types'
  BY DEF IInv, Types, Moves, SameSvc, SvcMoves
<1>2. \A d \in Clis \ {c} : inv'[d] = inv[d]
  BY DEF Moves
<1>3. Behind'
  <2> SUFFICES ASSUME NEW d \in Clis, inv'[d].pc \in {"begin", "migrate"}
               PROVE  inv'[d].cur < Target /\ inv'[d].cur <= db'.version
    BY DEF Behind
  <2>1. CASE d # c
    <3>1. inv'[d].cur < Target /\ inv'[d].cur <= db.version
      BY <1>2, <2>1 DEF IInv, Behind
    <3>2. inv'[d].cur \in Nat /\ db.version \in Nat /\ db'.version \in Nat
      BY <1>1 DEF IInv, Types, Invocation, Database
    <3> QED
      BY <3>1, <3>2
  <2> QED
    BY <2>1
<1>4. Alone'
  BY <1>2 DEF IInv, Alone
<1>5. FileFirst'
  BY <1>2 DEF IInv, FileFirst, ServicePc, SameSvc, SvcMoves
<1> QED
  BY <1>1, <1>3, <1>4, <1>5 DEF IInv, NoOrphanService, SameSvc

(* ... when it leaves the database alone, and ends or goes elsewhere.      *)
LEMMA QuietFrame ==
  ASSUME IInv, NEW c \in Clis, UNCHANGED <<db, svc, overlapped>>, faults' \in Nat, healthy' \in Nat,
         \/ \E res \in Result : Ends(c, res)
         \/ \E pc \in {"file", "dirs", "prepare", "observe", "version", "opened", "acknowledge"} : Goes(c, pc)
         \/ inv[c].op = "install" /\ Goes(c, "i_status")
  PROVE  IInv'
<1>0. /\ Types /\ db' \in Database /\ db.version <= db'.version /\ MigratedOnce'
      /\ SameSvc /\ overlapped' \in BOOLEAN /\ (overlapped => overlapped')
  BY FilesMove DEF IInv, Types, MigratedOnce, Database
<1>1. "none" \notin ServiceOp /\ "install" \in ServiceOp
  BY DEF ServiceOp
<1>2. CASE \E res \in Result : Ends(c, res)
  <2>1. Moves(c) /\ inv'[c].pc = "idle" /\ inv'[c].op = "none"
    BY <1>0, <1>2, EndsMoves
  <2> QED
    BY <1>0, <1>1, <2>1, StepFrame DEF ServicePc
<1>3. CASE \E pc \in {"file", "dirs", "prepare", "observe", "version", "opened", "acknowledge"} : Goes(c, pc)
  <2>1. PICK pc \in {"file", "dirs", "prepare", "observe", "version", "opened", "acknowledge"} : Goes(c, pc)
    BY <1>3
  <2>2. Moves(c) /\ inv'[c].pc = pc /\ inv'[c].op = inv[c].op
    BY <1>0, <2>1, GoesMoves DEF Pc
  <2> QED
    BY <1>0, <2>2, StepFrame DEF ServicePc
<1>4. CASE inv[c].op = "install" /\ Goes(c, "i_status")
  <2>1. Moves(c) /\ inv'[c].pc = "i_status" /\ inv'[c].op = "install"
    BY <1>0, <1>4, GoesMoves DEF Pc, ServicePc
  <2> QED
    BY <1>0, <1>1, <1>4, <2>1, StepFrame
<1> QED
  BY <1>2, <1>3, <1>4

(* The steps of Database::open.                                            *)
LEMMA OpenKeeps ==
  ASSUME IInv, NEW c \in Clis, OpenStep(c), UNCHANGED <<svc, healthy, overlapped>>
  PROVE  IInv'
<1>0. /\ Types /\ healthy' \in Nat /\ Target \in Nat \ {0} /\ db.version \in Nat
      /\ SameSvc /\ overlapped' \in BOOLEAN /\ (overlapped => overlapped')
  BY OpeningAssumption, FilesMove DEF IInv, Types, Database
<1>a. "storage" \in Result
  BY DEF Result
<1>b. UNCHANGED faults \/ Fault => faults' \in Nat
  BY <1>0 DEF Types, Fault
<1>1. CASE PrepareFile(c)
  <2>1. CASE Ends(c, "storage") /\ UNCHANGED db
    BY <1>0, <1>1, <1>a, <1>b, <2>1, QuietFrame DEF PrepareFile
  <2>2. CASE ~(Ends(c, "storage") /\ UNCHANGED db)
    <3>1. Moves(c) /\ inv'[c].pc = "observe" /\ inv'[c].op = inv[c].op
      BY <1>0, <1>1, <2>2, OpeningAssumption DEF PrepareFile, Types, Moves, Invocation, Pc
    <3>2. db' \in Database /\ db'.version = db.version /\ db'.applied = db.applied
      BY <1>0, <1>1, <2>2 DEF PrepareFile, Types, Database
    <3>3. MigratedOnce'
      BY <3>2 DEF IInv, MigratedOnce
    <3> QED
      BY <1>0, <1>1, <1>b, <3>1, <3>2, <3>3, StepFrame DEF PrepareFile, ServicePc
  <2> QED
    BY <2>1, <2>2
<1>2. CASE Observe(c)
  <2>1. CASE inv' = [inv EXCEPT ![c].left = @ - 1] /\ inv[c].left > 1
    <3>1. Moves(c) /\ inv'[c].pc = inv[c].pc /\ inv'[c].op = inv[c].op
      BY <1>0, <2>1 DEF Types, Moves, Invocation
    <3>2. db' \in Database /\ db'.version = db.version /\ MigratedOnce'
      BY <1>2 DEF Observe, IInv, Types, MigratedOnce
    <3> QED
      BY <1>0, <1>2, <1>b, <3>1, <3>2, StepFrame DEF Observe, At, ServicePc
  <2>2. CASE Goes(c, "version") \/ Ends(c, "storage")
    BY <1>0, <1>2, <1>a, <1>b, <2>2, QuietFrame DEF Observe
  <2> QED
    BY <1>2, <2>1, <2>2 DEF Observe
<1>3. CASE ReadVersion(c)
  <2>1. CASE Ends(c, "storage") \/ Goes(c, "opened")
    BY <1>0, <1>3, <1>a, <1>b, <2>1, QuietFrame DEF ReadVersion
  <2>2. CASE inv' = [inv EXCEPT ![c].pc = "begin", ![c].cur = db.version] /\ db.version < Target
    <3>1. Moves(c) /\ inv'[c].pc = "begin" /\ inv'[c].op = inv[c].op /\ inv'[c].cur = db.version
      BY <1>0, <2>2 DEF Types, Moves, Invocation, Pc
    <3>2. db' \in Database /\ db'.version = db.version /\ MigratedOnce'
      BY <1>3 DEF ReadVersion, IInv, Types, MigratedOnce
    <3>3. inv'[c].cur < Target /\ inv'[c].cur <= db'.version /\ db.version <= db'.version
      BY <1>0, <2>2, <3>1, <3>2
    <3>4. faults' \in Nat /\ inv'[c].pc \notin ServicePc
      BY <1>3, <1>b, <3>1 DEF ReadVersion, ServicePc
    <3> QED
      BY <1>0, <3>1, <3>2, <3>3, <3>4, StepFrame
  <2> QED
    BY <1>0, <1>3, <2>1, <2>2 DEF ReadVersion, Opened
<1>4. CASE Begin(c)
  <2>1. Moves(c) /\ inv'[c].pc = "migrate" /\ inv'[c].op = inv[c].op /\ inv'[c].cur = inv[c].cur
    BY <1>0, <1>4, GoesMoves DEF Begin, Pc
  <2>2. db' \in Database /\ db'.version = db.version /\ db'.applied = db.applied
    BY <1>0, <1>4 DEF Begin, Types, Database
  <2>3. MigratedOnce'
    BY <2>2 DEF IInv, MigratedOnce
  <2>4. inv[c].cur < Target /\ inv[c].cur <= db.version
    BY <1>4 DEF Begin, At, IInv, Behind
  <2> QED
    BY <1>0, <1>4, <1>b, <2>1, <2>2, <2>3, <2>4, StepFrame DEF Begin, ServicePc
<1>5. CASE BeginBusy(c)
  BY <1>0, <1>5, <1>a, <1>b, QuietFrame DEF BeginBusy
<1>6. CASE Migrate(c)
  <2> DEFINE pending == (inv[c].cur + 1)..Target
  <2>1. inv[c].cur \in Nat /\ inv[c].cur < Target /\ inv[c].cur <= db.version
    BY <1>0, <1>6 DEF Migrate, At, IInv, Behind, Types, Invocation
  <2>2. /\ db' \in Database /\ db.version <= db'.version /\ MigratedOnce'
    <3>1. CASE db' = [db EXCEPT !.tx = None]
      BY <1>0, <3>1 DEF IInv, Types, Database, MigratedOnce
    <3> DEFINE next == [m \in 1..Target |-> IF m \in pending THEN db.applied[m] + 1
                                            ELSE db.applied[m]]
    <3>2. CASE /\ ~ \E m \in pending : db.applied[m] > 0
               /\ db' = [db EXCEPT !.tx = None, !.version = Target, !.applied = next]
      <4>1. db \in Database /\ db.applied \in [1..Target -> Nat]
        BY <1>0 DEF Types, Database
      <4>2. next \in [1..Target -> Nat]
        <5>1. ASSUME NEW m \in 1..Target
              PROVE  db.applied[m] \in Nat /\ db.applied[m] + 1 \in Nat
          <6>1. db.applied[m] \in Nat
            BY <4>1
          <6> QED
            BY <6>1
        <5> HIDE DEF pending
        <5> QED
          BY <5>1
      <4>3. db' \in Database /\ db'.version = Target /\ db'.applied = next
        <5> HIDE DEF next
        <5> QED
          BY <1>0, <3>2, <4>1, <4>2 DEF Database
      <4>4. Target \in pending /\ db.version < Target
        BY <1>0, <2>1, <3>2, <4>1 DEF IInv, MigratedOnce
      <4>5. ASSUME NEW m \in 1..Target
            PROVE  db'.applied[m] = 1
        <5>1. CASE m \in pending
          <6>1. db.applied[m] \in Nat /\ ~(db.applied[m] > 0)
            BY <3>2, <4>1, <5>1
          <6> QED
            BY <4>3, <5>1, <6>1
        <5>2. CASE m \notin pending
          BY <1>0, <2>1, <4>3, <5>2 DEF IInv, MigratedOnce
        <5> QED
          BY <5>1, <5>2
      <4> QED
        BY <1>0, <4>3, <4>4, <4>5 DEF MigratedOnce
    <3> QED
      BY <1>6, <3>1, <3>2 DEF Migrate
  <2>3. Moves(c) /\ \/ inv'[c].pc = "idle" /\ inv'[c].op = "none"
                    \/ inv'[c].pc = "opened" /\ inv'[c].op = inv[c].op
    BY <1>0, <1>6, <1>a, GoesMoves, EndsMoves DEF Migrate, Opened, Pc
  <2>4. "none" \notin ServiceOp
    BY DEF ServiceOp
  <2> QED
    BY <1>0, <1>6, <1>b, <2>2, <2>3, <2>4, StepFrame DEF Migrate, ServicePc
<1> QED
  BY <1>1, <1>2, <1>3, <1>4, <1>5, <1>6 DEF OpenStep

-------------------------------------------------------------------------------
(* The user, and what is left of the commands.                             *)
LEMMA StartKeeps ==
  ASSUME IInv, NEW c \in Clis, NEW op \in Op, Start(c, op)
  PROVE  IInv'
<1> DEFINE new == [NoInvocation EXCEPT
                     !.op = op,
                     !.sure = CASE op = "doctor" -> faults + 1
                                [] op = "submit" /\ healthy = faults + 1 -> healthy
                                [] OTHER -> 0,
                     !.pc = CASE op \in {"submit", "durable", "dry_run", "list"} -> "config"
                              [] op \in {"install", "doctor"} -> "dirs"
                              [] OTHER -> "u_status"]
<1>0. Types /\ faults \in Nat /\ healthy \in Nat
  BY DEF IInv, Types
<1>1. NoInvocation \in Invocation
  BY DEF NoInvocation, Invocation, Pc, Result
<1>2. /\ new \in Invocation /\ new.op = op
      /\ new.pc \in {"config", "dirs", "u_status"} /\ (new.pc = "u_status" => op = "uninstall")
  <2> DEFINE sure == CASE op = "doctor" -> faults + 1
                       [] op = "submit" /\ healthy = faults + 1 -> healthy
                       [] OTHER -> 0
             pc == CASE op \in {"submit", "durable", "dry_run", "list"} -> "config"
                     [] op \in {"install", "doctor"} -> "dirs"
                     [] OTHER -> "u_status"
  <2>1. sure \in Nat
    BY <1>0
  <2>2. pc \in Pc /\ pc \in {"config", "dirs", "u_status"} /\ (pc = "u_status" => op = "uninstall")
    BY DEF Pc, ServicePc, Op
  <2> HIDE DEF sure, pc
  <2>3. [NoInvocation EXCEPT !.op = op, !.sure = sure, !.pc = pc] \in Invocation
    BY <1>1, <2>1, <2>2 DEF Invocation
  <2>4. /\ [NoInvocation EXCEPT !.op = op, !.sure = sure, !.pc = pc].op = op
        /\ [NoInvocation EXCEPT !.op = op, !.sure = sure, !.pc = pc].pc = pc
    BY DEF NoInvocation
  <2> QED
    BY <2>2, <2>3, <2>4 DEF sure, pc
<1>3. inv' = [inv EXCEPT ![c] = new]
  BY DEF Start
<1> HIDE DEF new
<1>4. Moves(c) /\ inv'[c].op = op /\ inv'[c].pc = new.pc
  BY <1>0, <1>2, <1>3 DEF Types, Moves
<1>5. db' \in Database /\ db'.version = db.version /\ db.version <= db'.version /\ MigratedOnce'
  BY DEF Start, IInv, Types, MigratedOnce, Database
<1>6. inv'[c].op \in ServiceOp => overlapped' \/ \A d \in Clis : inv[d].op \notin ServiceOp
  BY <1>4 DEF Start
<1>7. inv'[c].pc \in ServicePc => inv'[c].pc = "u_status" /\ inv'[c].op \in ServiceOp
  BY <1>2, <1>4 DEF ServicePc, ServiceOp
<1>8. SameSvc /\ faults' \in Nat /\ healthy' \in Nat
  BY <1>0, FilesMove DEF Start
<1>9. overlapped' \in BOOLEAN /\ (overlapped => overlapped')
  BY DEF Start, IInv, Types
<1> QED
  BY <1>2, <1>4, <1>5, <1>6, <1>7, <1>8, <1>9, StepFrame

LEMMA CommandKeeps ==
  ASSUME IInv, NEW c \in Clis,
         \/ Configure(c) \/ EnsureDirectories(c) \/ LookForDatabase(c)
         \/ UseDatabase(c) \/ Acknowledge(c) \/ DoctorRest(c)
  PROVE  IInv'
<1>0. Types /\ faults \in Nat /\ healthy \in Nat /\ inv[c].sure \in Nat
  BY DEF IInv, Types, Invocation
<1>a. \A res \in {"usage", "internal", "capability", "preview", "permission", "listed", "stored",
                  "unsupervised"} : res \in Result
  BY DEF Result
<1>1. CASE Configure(c)
  BY <1>0, <1>1, <1>a, QuietFrame DEF Configure, Others
<1>2. CASE EnsureDirectories(c)
  BY <1>0, <1>2, <1>a, QuietFrame DEF EnsureDirectories
<1>3. CASE LookForDatabase(c) \/ UseDatabase(c)
  BY <1>0, <1>3, <1>a, QuietFrame DEF LookForDatabase, UseDatabase, Others
<1>4. CASE Acknowledge(c)
  <2>1. UNCHANGED <<db, svc, overlapped, healthy>> /\ faults' \in Nat
    BY <1>0, <1>4 DEF Acknowledge, Fault
  <2>2. \E res \in Result : Ends(c, res)
    BY <1>4, <1>a DEF Acknowledge
  <2> QED
    BY <1>0, <2>1, <2>2, QuietFrame
<1>5. CASE DoctorRest(c)
  <2>1. \A fails : doctor_exit(fails) \in Result
    BY DEF doctor_exit, Result
  <2>2. UNCHANGED <<db, svc, overlapped>> /\ faults' \in Nat /\ healthy' \in Nat
    BY <1>0, <1>5 DEF DoctorRest
  <2>3. \E res \in Result : Ends(c, res)
    BY <1>5, <2>1 DEF DoctorRest
  <2> QED
    BY <2>2, <2>3, QuietFrame
<1> QED
  BY <1>1, <1>2, <1>3, <1>4, <1>5

LEMMA DoctorFirstKeeps ==
  ASSUME IInv, NEW c \in Clis, DoctorFirst(c)
  PROVE  IInv'
<1> DEFINE fails == {x \in Checks : \/ x = "state directory" /\ check_private_directory("state")
                                    \/ x = "runtime directory" /\ check_private_directory("runtime")
                                    \/ x = "configuration" /\ ~host.config}
<1>1. fails \in SUBSET Checks /\ inv' = [inv EXCEPT ![c].pc = "file", ![c].fails = fails]
  BY DEF DoctorFirst
<1> HIDE DEF fails
<1>2. Moves(c) /\ inv'[c].pc = "file" /\ inv'[c].op = inv[c].op
  <2>1. inv \in [Clis -> Invocation] /\ inv[c] \in Invocation /\ "file" \in Pc
    BY DEF IInv, Types, Pc
  <2>2. PICK x : x = [inv[c] EXCEPT !.pc = "file", !.fails = fails]
    OBVIOUS
  <2>3. x \in Invocation /\ x.pc = "file" /\ x.op = inv[c].op
    BY <1>1, <2>1, <2>2 DEF Invocation
  <2>4. inv' = [inv EXCEPT ![c] = x]
    BY <1>1, <2>1, <2>2 DEF Invocation
  <2>5. inv'[c] = x /\ inv' \in [Clis -> Invocation] /\ \A d \in Clis \ {c} : inv'[d] = inv[d]
    BY <2>1, <2>3, <2>4
  <2> QED
    BY <2>3, <2>5 DEF Moves
<1>3. db' \in Database /\ db.version <= db'.version /\ MigratedOnce'
  <2>1. db' = db /\ db \in Database /\ db.version \in Nat
    BY DEF DoctorFirst, IInv, Types, Database
  <2>2. MigratedOnce'
    BY <2>1 DEF IInv, MigratedOnce
  <2> QED
    BY <2>1, <2>2
<1>4. /\ SameSvc /\ faults' \in Nat /\ healthy' \in Nat
      /\ overlapped' \in BOOLEAN /\ (overlapped => overlapped')
  BY FilesMove DEF DoctorFirst, Others, IInv, Types
<1> QED
  BY <1>2, <1>3, <1>4, StepFrame DEF ServicePc

LEMMA CrashKeeps ==
  ASSUME IInv, NEW c \in Clis, Crash(c)
  PROVE  IInv'
<1>0. Types /\ "killed" \in Result /\ "none" \notin ServiceOp
  BY DEF IInv, Result, ServiceOp
<1>1. Moves(c) /\ inv'[c].pc = "idle" /\ inv'[c].op = "none"
  BY <1>0, EndsMoves DEF Crash
<1>2. db' \in Database /\ db'.version = db.version /\ db'.applied = db.applied
  BY <1>0 DEF Crash, RolledBack, Types, Database
<1>3. db.version <= db'.version /\ MigratedOnce'
  BY <1>0, <1>2 DEF IInv, MigratedOnce, Types, Database
<1>4. /\ SameSvc /\ faults' \in Nat /\ healthy' \in Nat
      /\ overlapped' \in BOOLEAN /\ (overlapped => overlapped')
  BY <1>0, FilesMove DEF Crash, Fault, Others, Types
<1> QED
  BY <1>0, <1>1, <1>2, <1>3, <1>4, StepFrame DEF ServicePc

(* Manager, supervisors and the passing of files.                          *)
LEMMA WorldKeeps ==
  ASSUME IInv, SessionEnds \/ Outside
  PROVE  IInv'
<1>1. UNCHANGED <<inv, db, healthy, overlapped>> /\ faults' \in Nat
  BY DEF SessionEnds, Outside, Restarted, ServiceDown, ManagerGoes, ManagerComes, Moved, Fault,
         Others, IInv, Types
<1>2. /\ svc' \in ServiceState /\ svc'.platform = svc.platform /\ svc'.reg = svc.reg
      /\ svc'.unit = "none" <=> svc.unit = "none"
      /\ svc.platform = "launchd" => (svc.avail => svc'.avail)
  BY DEF SessionEnds, Outside, Restarted, ServiceDown, ManagerGoes, ManagerComes, Moved,
         IInv, Types, ServiceState
<1> QED
  BY <1>1, <1>2 DEF IInv, Types, Behind, MigratedOnce, Alone, FileFirst, NoOrphanService

LEMMA Invariant == Spec => []IInv
<1>1. Init => IInv
  <2> SUFFICES ASSUME Init
               PROVE  IInv
    OBVIOUS
  <2>0. NoInvocation \in Invocation /\ NoInvocation.pc = "idle" /\ NoInvocation.op = "none"
    BY DEF NoInvocation, Invocation, Pc, Result
  <2>1. inv \in [Clis -> Invocation] /\ \A c \in Clis : inv[c] = NoInvocation
    BY <2>0 DEF Init
  <2>2. /\ svc \in ServiceState /\ ~svc.reg /\ svc.avail
    BY DEF Init, ServiceInit, ServiceState
  <2>3. db \in Database /\ MigratedOnce
    <3>1. ASSUME NEW file \in {"absent", "plain", "insecure"}, NEW v \in Nat
          PROVE  /\ AtVersion(file, v) \in Database
                 /\ [AtVersion(file, v) EXCEPT !.wal = FALSE] \in Database
                 /\ [AtVersion(file, v) EXCEPT !.wal = FALSE].version = v
                 /\ [AtVersion(file, v) EXCEPT !.wal = FALSE].applied = AtVersion(file, v).applied
                 /\ AtVersion(file, v).version = v
                 /\ AtVersion(file, v).applied = [m \in 1..Target |-> IF m <= v THEN 1 ELSE 0]
      BY DEF AtVersion, Database
    <3>2. \E file \in {"absent", "plain", "insecure"}, v \in Nat :
            db \in {AtVersion(file, v), [AtVersion(file, v) EXCEPT !.wal = FALSE]}
      <4>1. Target \in Nat /\ 1..(Target + 1) \subseteq Nat
        BY OpeningAssumption
      <4> QED
        BY <4>1 DEF Init, OpeningInit
    <3>3. PICK file \in {"absent", "plain", "insecure"}, v \in Nat :
            db \in {AtVersion(file, v), [AtVersion(file, v) EXCEPT !.wal = FALSE]}
      BY <3>2
    <3>4. /\ db \in Database /\ db.version = v
          /\ db.applied = [m \in 1..Target |-> IF m <= v THEN 1 ELSE 0]
      <4> HIDE DEF AtVersion
      <4>1. CASE db = AtVersion(file, v)
        BY <3>1, <4>1
      <4>2. CASE db = [AtVersion(file, v) EXCEPT !.wal = FALSE]
        BY <3>1, <4>2
      <4> QED
        BY <3>3, <4>1, <4>2
    <3> QED
      BY <3>4 DEF MigratedOnce
  <2>4. Types
    BY <2>1, <2>2, <2>3 DEF Init, Types
  <2>5. Behind /\ Alone /\ FileFirst /\ NoOrphanService
    BY <2>0, <2>1, <2>2 DEF Behind, Alone, FileFirst, NoOrphanService, ServicePc, ServiceOp
  <2> QED
    BY <2>3, <2>4, <2>5 DEF IInv
<1>2. IInv /\ [Next]_vars => IInv'
  <2> SUFFICES ASSUME IInv, [Next]_vars
               PROVE  IInv'
    OBVIOUS
  <2>1. ASSUME NEW c \in Clis, Step(c)
        PROVE  IInv'
    <3>1. CASE OpenDatabase(c)
      BY <3>1, OpenKeeps DEF OpenDatabase, Others
    <3>2. CASE ServiceOperation(c)
      BY <3>2, InstallKeeps, UninstallKeeps DEF ServiceOperation, ServiceStep, Others
    <3> QED
      BY <2>1, <3>1, <3>2, CommandKeeps, DoctorFirstKeeps DEF Step
  <2>2. CASE UNCHANGED vars
    BY <2>2 DEF vars, IInv, Types, Behind, MigratedOnce, Alone, FileFirst, NoOrphanService
  <2> QED
    BY <2>1, <2>2, StartKeeps, CrashKeeps, WorldKeeps DEF Next
<1> QED
  BY <1>1, <1>2, PTL DEF Spec

(* Every migration is committed once, in order, whatever processes open    *)
(* the database together or die while they do (apply_migrations,           *)
(* src/infrastructure/sqlite/mod.rs:178): the version read before the      *)
(* transaction is never ahead of the schema, and one that is behind makes  *)
(* the transaction fail as a whole.                                        *)
THEOREM MigratedOnceHolds == Spec => []MigratedOnce
<1>1. IInv => MigratedOnce
  BY DEF IInv
<1> QED
  BY <1>1, Invariant, PTL

(* The manager never knows a service whose unit file is gone, whichever    *)
(* steps of install, rollback and uninstall fail or are the last of their  *)
(* process (src/infrastructure/service/systemd.rs, macos.rs), as long as   *)
(* no two service operations have been underway at a time: nothing in the  *)
(* code keeps them apart, and two that race can leave such a service.      *)
THEOREM NoOrphanServiceHolds == Spec => []NoOrphanService
<1>1. IInv => NoOrphanService
  BY DEF IInv
<1> QED
  BY <1>1, Invariant, PTL

-------------------------------------------------------------------------------
(* From here on: what the processes create, and what a healthy report is   *)
(* worth.                                                                  *)
PlaceTypes ==
  /\ dirs \in [state : DirState, runtime : DirState]
  /\ host \in HostState

Inspecting == {"dry_run", "list", "doctor", "uninstall"}

Opening == {"observe", "version", "begin", "migrate"}

(* Who only looks comes to no step that creates something.                 *)
Looks(i, file) ==
  i.op \in Inspecting =>
    /\ i.pc # "acknowledge"
    /\ i.pc = "dirs" => i.op = "doctor"
    /\ i.pc = "prepare" => file # "absent"
    /\ i.pc = "config" => i.op \in {"dry_run", "list"}
    /\ i.pc \in {"file", "prepare", "opened"} \cup Opening => i.op \in {"list", "doctor"}

(* A file without a schema is its creator's: it alone gets past the wait   *)
(* for a schema, until it has committed one.                               *)
Waits(i, file, version) ==
  /\ i.pc \in Opening => file = "plain"
  /\ i.created => \/ i.pc \in Opening /\ version = 0
                  \/ i.pc \in {"opened", "acknowledge"} /\ version > 0 /\ file # "absent"
  /\ (i.pc \in {"version", "begin", "migrate"} /\ ~i.created) => version > 0

OneCreator == \A c, d \in Clis : (inv[c].created /\ inv[d].created) => c = d

Places ==
  /\ PlaceTypes
  /\ db.file = "absent" => db.version = 0
  /\ \A c \in Clis : Looks(inv[c], db.file) /\ Waits(inv[c], db.file, db.version)
  /\ OneCreator

(* Nothing the doctor looks at fails.                                      *)
InOrder ==
  /\ host.config /\ host.clocks /\ host.identity /\ host.lock # "insecure"
  /\ dirs.state # "insecure" /\ dirs.runtime # "insecure"

(* A database that a submission can open: none, one with the current       *)
(* schema, or one that gets it from its creator.                           *)
Usable ==
  \/ db.file = "absent"
  \/ db.file = "plain" /\ (db.version = Target \/ (db.version = 0 /\ Creating))

Fresh(sure) == sure = faults + 1

(* The report that is being made, the last one, the submissions that       *)
(* started on it, and those that are over.                                 *)
Reports(c) ==
  inv[c].op = "doctor" =>
    /\ (inv[c].pc # "dirs" /\ inv[c].fails = {})
         => host.config /\ dirs.state # "insecure" /\ dirs.runtime # "insecure"
    /\ (inv[c].pc = "opened" /\ Fresh(inv[c].sure)) => Usable

Submits(c) ==
  (inv[c].op = "submit" /\ Fresh(inv[c].sure)) =>
    InOrder /\ Usable /\ (inv[c].pc \in {"begin", "migrate"} => inv[c].created)

Told(c) ==
  \/ inv[c].res = "stored"
  \/ /\ inv[c].res = "unsupervised"
     /\ host.lock = "half" \/ dirs.runtime = "orphan" \/ ~host.log \/ ~host.rows
  \/ dirs.state = "orphan" \/ ~db.wal

Trusted ==
  /\ healthy <= faults + 1 /\ \A c \in Clis : inv[c].sure <= faults + 1
  /\ Fresh(healthy) => InOrder /\ Usable
  /\ \A c \in Clis : /\ Reports(c) /\ Submits(c)
                     /\ (inv[c].pc = "idle" /\ Fresh(inv[c].sure)) => Told(c)

-------------------------------------------------------------------------------
(* What no step undoes: clocks, configuration and the like stay as they    *)
(* are, a directory is only made, and a lock that nobody replaces stays.   *)
Drifts ==
  /\ PlaceTypes'
  /\ faults' \in Nat /\ faults <= faults'
  /\ host'.config = host.config /\ host'.clocks = host.clocks
  /\ host'.identity = host.identity /\ host'.log = host.log /\ host'.rows = host.rows
  /\ host'.lock # host.lock => host.lock # "half" /\ host'.lock # "insecure"
  /\ dirs'.state # dirs.state => dirs.state = "absent" /\ dirs'.state = "private"
  /\ dirs'.runtime # dirs.runtime => dirs.runtime = "absent" /\ dirs'.runtime = "private"
  /\ db'.wal = db.wal

LEMMA FaultDrifts ==
  ASSUME Types, Fault \/ Keep
  PROVE  faults' \in Nat /\ faults <= faults' /\ (Fault => faults' # faults)
BY DEF Types, Fault, Keep

LEMMA StandingDrifts ==
  ASSUME Types, PlaceTypes, UNCHANGED <<host, dirs>>, db'.wal = db.wal,
         faults' \in Nat, faults <= faults'
  PROVE  Drifts
BY DEF PlaceTypes, Drifts

(* Which steps of a service operation there are, for everyone else.        *)
LEMMA ServiceMoves ==
  ASSUME Types, NEW c \in Clis, ServiceStep(c)
  PROVE  /\ inv[c].pc \in ServicePc
         /\ (\E pc \in ServicePc : Goes(c, pc)) \/ (\E res \in Result : Ends(c, res))
         /\ faults' \in Nat /\ faults <= faults'
<1>a. /\ {"capability", "unchanged", "changed", "rolled_back", "rollback_failed"} \subseteq Result
      /\ {"i_check", "i_create", "i_write", "i_rename", "i_mode", "i_reload", "i_enable", "i_verify", "u_check",
          "u_disable", "u_remove", "u_reload", "u_verify"} \subseteq ServicePc
  BY DEF Result, ServicePc
<1>b. UninstallOk(c) \/ UninstallErr(c)
        => (\E pc \in ServicePc : Goes(c, pc)) \/ (\E res \in Result : Ends(c, res))
  BY <1>a DEF UninstallOk, UninstallErr
<1>1. inv[c].pc \in ServicePc
  BY DEF ServiceStep, InstallStatus, CheckUnit, CheckAgent, CreateTemporary, WriteTemporary,
         RenameUnit, SetMode, daemon_reload, bootstrap, enable_now, kickstart, VerifyInstall,
         UninstallStatus, UninstallCheck, disable_now, bootout, RemoveUnit, RemoveAgent, ReloadAfter,
         VerifyUninstall, At, ServicePc
<1>2. Fault \/ Keep
  BY DEF ServiceStep, InstallStatus, CheckUnit, CheckAgent, CreateTemporary, WriteTemporary,
         RenameUnit, SetMode, daemon_reload, bootstrap, enable_now, kickstart, VerifyInstall,
         UninstallStatus, UninstallCheck, disable_now, bootout, RemoveUnit, RemoveAgent, ReloadAfter,
         VerifyUninstall, Fails
<1>3. CASE \/ InstallStatus(c) \/ CheckUnit(c) \/ CheckAgent(c) \/ CreateTemporary(c)
           \/ WriteTemporary(c) \/ RenameUnit(c) \/ SetMode(c) \/ VerifyInstall(c)
  BY <1>a, <1>1, <1>2, <1>3, FaultDrifts
     DEF InstallStatus, CheckUnit, CheckAgent, CreateTemporary, WriteTemporary, RenameUnit, SetMode,
         VerifyInstall
<1>4. CASE daemon_reload(c) \/ bootstrap(c) \/ enable_now(c) \/ kickstart(c)
  BY <1>a, <1>1, <1>2, <1>4, FaultDrifts DEF daemon_reload, bootstrap, enable_now, kickstart
<1>5. CASE UninstallStatus(c) \/ UninstallCheck(c) \/ disable_now(c) \/ bootout(c)
  BY <1>a, <1>b, <1>1, <1>2, <1>5, FaultDrifts
     DEF UninstallStatus, UninstallCheck, disable_now, bootout
<1>6. CASE RemoveUnit(c) \/ RemoveAgent(c) \/ ReloadAfter(c) \/ VerifyUninstall(c)
  BY <1>a, <1>b, <1>1, <1>2, <1>6, FaultDrifts
     DEF RemoveUnit, RemoveAgent, ReloadAfter, VerifyUninstall
<1> QED
  BY <1>3, <1>4, <1>5, <1>6 DEF ServiceStep

LEMMA OpenDrifts ==
  ASSUME Types, NEW c \in Clis, OpenStep(c)
  PROVE  faults' \in Nat /\ faults <= faults' /\ db'.wal = db.wal
<1>1. Fault \/ Keep
  BY DEF OpenStep, PrepareFile, Observe, ReadVersion, Begin, BeginBusy, Migrate, Keep
<1>2. db \in Database
  BY DEF Types
<1>3. ASSUME PrepareFile(c) \/ Begin(c)
      PROVE  db'.wal = db.wal
  BY <1>2, <1>3 DEF PrepareFile, Begin, Database
<1>4. ASSUME Observe(c) \/ ReadVersion(c) \/ BeginBusy(c)
      PROVE  db'.wal = db.wal
  BY <1>4 DEF Observe, ReadVersion, BeginBusy
<1>5. ASSUME Migrate(c)
      PROVE  db'.wal = db.wal
  <2>1. ASSUME db' = [db EXCEPT !.tx = None]
        PROVE  db'.wal = db.wal
    BY <1>2, <2>1 DEF Database
  <2>2. ASSUME NEW applied, db' = [db EXCEPT !.tx = None, !.version = Target, !.applied = applied]
        PROVE  db'.wal = db.wal
    BY <1>2, <2>2 DEF Database
  <2> QED
    BY <1>5, <2>1, <2>2 DEF Migrate
<1> QED
  BY <1>1, <1>3, <1>4, <1>5, FaultDrifts DEF OpenStep

LEMMA NextDrifts ==
  ASSUME IInv, PlaceTypes, Next
  PROVE  Drifts
<1>0. Types /\ faults \in Nat /\ db \in Database
  BY DEF IInv, Types
<1>1. ASSUME NEW c \in Clis, Step(c)
      PROVE  Drifts
  <2>1. CASE \/ Configure(c) \/ LookForDatabase(c) \/ UseDatabase(c) \/ DoctorFirst(c)
             \/ DoctorRest(c)
    <3>1. UNCHANGED <<host, dirs, faults, db>>
      BY <2>1 DEF Configure, LookForDatabase, UseDatabase, DoctorFirst, DoctorRest, Others
    <3> QED
      BY <1>0, <3>1, StandingDrifts
  <2>2. CASE EnsureDirectories(c)
    <3>1. /\ dirs' \in [state : DirState, runtime : DirState]
          /\ dirs'.state # dirs.state => dirs.state = "absent" /\ dirs'.state = "private"
          /\ dirs'.runtime # dirs.runtime => dirs.runtime = "absent" /\ dirs'.runtime = "private"
      BY <2>2 DEF EnsureDirectories, PlaceTypes, CanBePrivate, DirState
    <3> QED
      BY <1>0, <2>2, <3>1 DEF EnsureDirectories, PlaceTypes, Drifts
  <2>3. CASE Acknowledge(c)
    <3>1. /\ dirs' \in [state : DirState, runtime : DirState]
          /\ dirs'.state # dirs.state => dirs.state = "absent" /\ dirs'.state = "private"
          /\ dirs'.runtime # dirs.runtime => dirs.runtime = "absent" /\ dirs'.runtime = "private"
      BY <2>3 DEF Acknowledge, start_session_supervisor, CanStart, PlaceTypes, CanBePrivate, DirState
    <3>2. \/ host' = host
          \/ \E lock \in {"live", "none"} :
               host' = [host EXCEPT !.lock = lock] /\ host.lock \in {"none", "stale"}
      BY <2>3 DEF Acknowledge, start_session_supervisor, TakesLock
    <3>3. PlaceTypes'
      BY <3>1, <3>2 DEF PlaceTypes, HostState
    <3>4. faults' \in Nat /\ faults <= faults'
      BY <1>0, <2>3, FaultDrifts DEF Acknowledge, Keep
    <3> QED
      <4>1. /\ host'.config = host.config /\ host'.clocks = host.clocks
            /\ host'.identity = host.identity /\ host'.log = host.log /\ host'.rows = host.rows
            /\ host'.lock # host.lock => host.lock # "half" /\ host'.lock # "insecure"
        BY <3>2 DEF PlaceTypes, HostState
      <4> QED
        BY <1>0, <2>3, <3>1, <3>3, <3>4, <4>1 DEF Acknowledge, Drifts
  <2>4. CASE OpenDatabase(c)
    BY <1>0, <2>4, OpenDrifts, StandingDrifts DEF OpenDatabase, Others
  <2>5. CASE ServiceOperation(c)
    BY <1>0, <2>5, ServiceMoves, StandingDrifts DEF ServiceOperation, Others
  <2> QED
    BY <1>1, <2>1, <2>2, <2>3, <2>4, <2>5 DEF Step
<1>2. ASSUME NEW c \in Clis, Crash(c)
      PROVE  Drifts
  <2>1. db'.wal = db.wal
    BY <1>0, <1>2 DEF Crash, RolledBack, Database
  <2> QED
    BY <1>0, <1>2, <2>1, FaultDrifts, StandingDrifts DEF Crash, Others
<1>3. ASSUME NEW c \in Clis, NEW op \in Op, Start(c, op)
      PROVE  Drifts
  BY <1>0, <1>3, StandingDrifts DEF Start
<1>4. CASE SessionEnds
  <2>1. /\ host'.lock \in {"none", "stale", "half"} /\ host.lock = "live" /\ host' \in HostState
        /\ host'.config = host.config /\ host'.clocks = host.clocks
        /\ host'.identity = host.identity /\ host'.log = host.log /\ host'.rows = host.rows
    BY <1>4 DEF SessionEnds, PlaceTypes, HostState
  <2>2. faults' \in Nat /\ faults <= faults'
    BY <1>0, <1>4, FaultDrifts DEF SessionEnds, Keep
  <2> QED
    BY <1>4, <2>1, <2>2 DEF SessionEnds, PlaceTypes, Drifts
<1>5. CASE Outside
  <2>1. Fault \/ Keep
    BY <1>5 DEF Outside, Restarted, ServiceDown, ManagerGoes, ManagerComes, Moved, Keep
  <2> QED
    BY <1>0, <1>5, <2>1, FaultDrifts, StandingDrifts DEF Outside, Others
<1> QED
  BY <1>1, <1>2, <1>3, <1>4, <1>5 DEF Next

-------------------------------------------------------------------------------
LEMMA GoesOnly ==
  ASSUME Types, NEW c \in Clis, NEW pc \in Pc, Goes(c, pc)
  PROVE  /\ Moves(c) /\ inv'[c].pc = pc /\ inv'[c].op = inv[c].op /\ inv'[c].created = inv[c].created
         /\ inv'[c].fails = inv[c].fails /\ inv'[c].sure = inv[c].sure
BY DEF Types, Goes, Moves, Invocation

LEMMA EndsOnly ==
  ASSUME Types, NEW c \in Clis, NEW res \in Result, Ends(c, res)
  PROVE  /\ Moves(c) /\ inv'[c].pc = "idle" /\ inv'[c].op = "none" /\ ~inv'[c].created
         /\ inv'[c].res = res /\ inv'[c].sure = IF inv[c].op = "submit" THEN inv[c].sure ELSE 0
<1> DEFINE sure == IF inv[c].op = "submit" THEN inv[c].sure ELSE 0
           over == [NoInvocation EXCEPT !.res = res, !.sure = sure]
<1>1. /\ over.pc = "idle" /\ over.op = "none" /\ ~over.created /\ over.res = res
      /\ over.sure = sure
  <2> HIDE DEF sure
  <2> QED
    BY DEF NoInvocation
<1>2. inv' = [inv EXCEPT ![c] = over]
  BY DEF Ends
<1> HIDE DEF over
<1>3. inv'[c] = over
  BY <1>2 DEF Types
<1> QED
  BY <1>1, <1>3, EndsMoves

LEMMA PlacesFrame ==
  ASSUME Places, PlaceTypes', db'.file = "absent" => db'.version = 0, NEW c \in Clis, Moves(c),
         Looks(inv'[c], db'.file), Waits(inv'[c], db'.file, db'.version),
         \A d \in Clis \ {c} : Looks(inv[d], db'.file) /\ Waits(inv[d], db'.file, db'.version),
         inv'[c].created => inv[c].created \/ \A d \in Clis : ~inv[d].created
  PROVE  Places'
<1>1. \A d \in Clis \ {c} : inv'[d] = inv[d]
  BY DEF Moves
<1>2. OneCreator'
  BY <1>1 DEF Places, OneCreator
<1>3. \A d \in Clis : Looks(inv'[d], db'.file) /\ Waits(inv'[d], db'.file, db'.version)
  BY <1>1
<1> QED
  BY <1>2, <1>3 DEF Places

(* A step that leaves file and schema as they are, and ends ...            *)
LEMMA EndsPlaces ==
  ASSUME Types, Places, PlaceTypes', NEW c \in Clis, NEW res \in Result, Ends(c, res),
         db'.file = db.file, db'.version = db.version
  PROVE  Places'
<1>1. Moves(c) /\ inv'[c].pc = "idle" /\ inv'[c].op = "none" /\ ~inv'[c].created
  BY EndsOnly
<1>2. Looks(inv'[c], db'.file) /\ Waits(inv'[c], db'.file, db'.version)
  BY <1>1 DEF Looks, Waits, Inspecting, Opening
<1> QED
  BY <1>1, <1>2, PlacesFrame DEF Places

(* ... or goes on outside of Database::open.                               *)
LEMMA GoesPlaces ==
  ASSUME Types, Places, PlaceTypes', NEW c \in Clis, NEW pc \in Pc \ Opening, Goes(c, pc),
         inv[c].pc \notin Opening, UNCHANGED db,
         inv[c].pc \in {"opened", "acknowledge"} => pc = "acknowledge",
         inv[c].op \in Inspecting => /\ pc \notin {"acknowledge", "dirs", "config"}
                                     /\ pc = "prepare" => db.file # "absent"
                                     /\ pc \in {"file", "prepare", "opened"} => inv[c].op \in {"list", "doctor"}
  PROVE  Places'
<1>1. Moves(c) /\ inv'[c].pc = pc /\ inv'[c].op = inv[c].op /\ inv'[c].created = inv[c].created
  BY GoesOnly
<1>2. Looks(inv'[c], db'.file)
  BY <1>1 DEF Looks
<1>3. Waits(inv'[c], db'.file, db'.version)
  BY <1>1 DEF Waits, Places, Opening
<1> QED
  BY <1>1, <1>2, <1>3, PlacesFrame DEF Places

LEMMA CommandPlaces ==
  ASSUME IInv, Places, PlaceTypes', NEW c \in Clis,
         \/ Configure(c) \/ EnsureDirectories(c) \/ LookForDatabase(c)
         \/ UseDatabase(c) \/ Acknowledge(c) \/ DoctorRest(c)
  PROVE  Places'
<1>0. Types /\ Looks(inv[c], db.file)
  BY DEF IInv, Places
<1>a. /\ \A res \in {"usage", "internal", "capability", "preview", "permission", "listed", "stored",
                     "unsupervised"} : res \in Result
      /\ \A fails : doctor_exit(fails) \in Result
  BY DEF Result, doctor_exit
<1>b. {"file", "dirs", "prepare", "opened", "acknowledge", "i_status"} \subseteq Pc \ Opening
  BY DEF Pc, Opening, ServicePc
<1>1. UNCHANGED db /\ inv[c].pc \notin Opening
  BY DEF Configure, EnsureDirectories, LookForDatabase, UseDatabase, Acknowledge, DoctorRest, Others,
         At, Opening
<1>2. ASSUME NEW res \in Result, Ends(c, res)
      PROVE  Places'
  BY <1>0, <1>1, <1>2, EndsPlaces
<1>3. CASE Configure(c)
  <2>1. inv[c].op \in Inspecting => inv[c].op \in {"dry_run", "list"}
    BY <1>0, <1>3 DEF Looks, Configure, At
  <2>2. CASE \E res \in Result : Ends(c, res)
    BY <1>2, <2>2
  <2>3. CASE Goes(c, "file") /\ inv[c].op = "list"
    BY <1>0, <1>b, <1>1, <1>3, <2>3, GoesPlaces DEF Configure, At
  <2>4. CASE Goes(c, "dirs") /\ inv[c].op \notin {"list", "dry_run"}
    BY <1>0, <1>b, <1>1, <1>3, <2>1, <2>4, GoesPlaces DEF Configure, At
  <2> QED
    BY <1>3, <1>a, <2>2, <2>3, <2>4 DEF Configure
<1>4. CASE EnsureDirectories(c)
  <2>1. inv[c].op \notin Inspecting
    BY <1>0, <1>4 DEF Looks, EnsureDirectories, At
  <2>2. \/ \E res \in Result : Ends(c, res)
        \/ \E pc \in {"i_status", "prepare"} : Goes(c, pc)
    BY <1>4, <1>a DEF EnsureDirectories
  <2> QED
    BY <1>0, <1>b, <1>1, <1>2, <1>4, <2>1, <2>2, GoesPlaces DEF EnsureDirectories, At
<1>5. CASE LookForDatabase(c)
  <2>1. inv[c].op \in Inspecting => inv[c].op \in {"list", "doctor"}
    BY <1>0, <1>5 DEF Looks, LookForDatabase, At
  <2>2. \/ \E res \in Result : Ends(c, res)
        \/ Goes(c, "prepare") /\ db.file # "absent"
        \/ Goes(c, "opened")
    BY <1>5, <1>a DEF LookForDatabase
  <2> QED
    BY <1>0, <1>b, <1>1, <1>2, <1>5, <2>1, <2>2, GoesPlaces DEF LookForDatabase, At
<1>6. CASE UseDatabase(c)
  <2>1. inv[c].op \in Inspecting => inv[c].op = "list"
    BY <1>0, <1>6 DEF Looks, UseDatabase, At
  <2>2. \/ \E res \in Result : Ends(c, res)
        \/ Goes(c, "acknowledge") /\ inv[c].op # "list"
    BY <1>6, <1>a DEF UseDatabase
  <2> QED
    BY <1>0, <1>b, <1>1, <1>2, <1>6, <2>1, <2>2, GoesPlaces DEF UseDatabase, At
<1>7. CASE Acknowledge(c) \/ DoctorRest(c)
  BY <1>2, <1>7, <1>a DEF Acknowledge, DoctorRest
<1> QED
  BY <1>3, <1>4, <1>5, <1>6, <1>7

LEMMA OpenPlaces ==
  ASSUME IInv, Places, PlaceTypes', NEW c \in Clis, OpenStep(c)
  PROVE  Places'
<1>0. /\ Types /\ Looks(inv[c], db.file) /\ Waits(inv[c], db.file, db.version) /\ db \in Database
      /\ inv[c] \in Invocation /\ Target \in Nat \ {0} /\ db.version \in Nat
      /\ \A d \in Clis : Looks(inv[d], db.file) /\ Waits(inv[d], db.file, db.version)
  BY OpeningAssumption DEF IInv, Places, Types, Database
<1>a. "storage" \in Result /\ Opening \cup {"opened"} \subseteq Pc
  BY DEF Result, Opening, Pc
<1>1. ASSUME Ends(c, "storage"), db'.file = db.file, db'.version = db.version
      PROVE  Places'
  BY <1>0, <1>1, <1>a, EndsPlaces
<1>2. CASE PrepareFile(c)
  <2>1. CASE db.file = "absent"
    <3>1. /\ Moves(c) /\ inv'[c].pc = "observe" /\ inv'[c].created /\ inv'[c].op = inv[c].op
      BY <1>0, <1>2, <2>1 DEF PrepareFile, Types, Moves, Invocation, Pc
    <3>2. db'.file = "plain" /\ db'.version = db.version
      BY <1>0, <1>2, <2>1 DEF PrepareFile, Database
    <3>3. \A d \in Clis : ~inv[d].created /\ inv[d].pc \notin Opening
      BY <1>0, <2>1 DEF Waits
    <3>4. inv[c].op \notin Inspecting
      BY <1>0, <1>2, <2>1 DEF Looks, PrepareFile, At
    <3>5. \A d \in Clis : Looks(inv[d], db'.file) /\ Waits(inv[d], db'.file, db'.version)
      BY <1>0, <3>2, <3>3 DEF Looks, Waits, Opening
    <3>6. Looks(inv'[c], db'.file) /\ Waits(inv'[c], db'.file, db'.version)
      <4>1. db.version = 0
        BY <2>1 DEF Places
      <4> QED
        BY <3>1, <3>2, <3>4, <4>1 DEF Looks, Waits, Opening
    <3> QED
      BY <3>1, <3>2, <3>3, <3>5, <3>6, PlacesFrame
  <2>2. CASE db.file = "plain"
    <3>1. /\ Moves(c) /\ inv'[c].pc = "observe" /\ inv'[c].created = inv[c].created
          /\ inv'[c].op = inv[c].op /\ UNCHANGED db
      BY <1>0, <1>2, <2>2, OpeningAssumption DEF PrepareFile, Types, Moves, Invocation, Pc
    <3>2. Looks(inv'[c], db'.file) /\ Waits(inv'[c], db'.file, db'.version)
      BY <1>0, <1>2, <2>2, <3>1 DEF Looks, Waits, PrepareFile, At, Opening
    <3> QED
      BY <1>0, <2>2, <3>1, <3>2, PlacesFrame
  <2> QED
    BY <1>1, <1>2, <2>1, <2>2 DEF PrepareFile
<1>b. ASSUME NEW pc \in Opening \cup {"opened"}, Moves(c), inv'[c].pc = pc, inv'[c].op = inv[c].op,
             inv'[c].created = inv[c].created, inv[c].pc \in Opening, db'.file = db.file,
             db'.version = db.version,
             pc = "opened" => db.version > 0 /\ ~inv[c].created,
             pc \in {"version", "begin", "migrate"} => inv[c].created \/ db.version > 0
      PROVE  Places'
  <2>1. Looks(inv'[c], db'.file) /\ Waits(inv'[c], db'.file, db'.version)
    BY <1>0, <1>b DEF Looks, Waits, Opening
  <2>2. db.file = "plain"
    BY <1>0, <1>b DEF Waits
  <2> QED
    BY <1>0, <1>b, <2>1, <2>2, PlacesFrame
<1>3. CASE Observe(c)
  <2>1. inv[c].pc = "observe" /\ "observe" \in Opening /\ UNCHANGED db
    BY <1>3 DEF Observe, At, Opening
  <2>2. CASE Goes(c, "version") /\ (inv[c].created \/ db.version > 0)
    <3>1. /\ Moves(c) /\ inv'[c].pc = "version" /\ inv'[c].op = inv[c].op
          /\ inv'[c].created = inv[c].created /\ "version" \in Opening
      BY <1>0, <1>a, <2>2, GoesOnly DEF Opening
    <3> QED
      BY <1>b, <2>1, <2>2, <3>1
  <2>3. CASE inv' = [inv EXCEPT ![c].left = @ - 1] /\ inv[c].left > 1
    <3>1. /\ Moves(c) /\ inv'[c].pc = inv[c].pc /\ inv'[c].op = inv[c].op
          /\ inv'[c].created = inv[c].created
      BY <1>0, <2>3 DEF Types, Moves, Invocation
    <3> QED
      BY <1>b, <2>1, <3>1
  <2> QED
    BY <1>1, <1>3, <2>1, <2>2, <2>3 DEF Observe
<1>4. CASE ReadVersion(c)
  <2>1. /\ inv[c].pc = "version" /\ "version" \in Opening /\ "begin" \in Opening /\ UNCHANGED db
        /\ (inv[c].created \/ db.version > 0) /\ (inv[c].created => db.version = 0)
    BY <1>0, <1>4 DEF ReadVersion, At, Opening, Waits
  <2>2. CASE Goes(c, "opened") /\ db.version = Target
    <3>1. /\ Moves(c) /\ inv'[c].pc = "opened" /\ inv'[c].op = inv[c].op
          /\ inv'[c].created = inv[c].created
      BY <1>0, <1>a, <2>2, GoesOnly
    <3>2. db.version > 0 /\ ~inv[c].created
      BY <1>0, <2>1, <2>2
    <3> QED
      BY <1>b, <2>1, <3>1, <3>2
  <2>3. CASE inv' = [inv EXCEPT ![c].pc = "begin", ![c].cur = db.version]
    <3>1. /\ Moves(c) /\ inv'[c].pc = "begin" /\ inv'[c].op = inv[c].op
          /\ inv'[c].created = inv[c].created
      BY <1>0, <2>3 DEF Types, Moves, Invocation, Pc
    <3> QED
      BY <1>b, <2>1, <3>1
  <2> QED
    BY <1>1, <1>4, <2>1, <2>2, <2>3 DEF ReadVersion, Opened
<1>5. CASE Begin(c)
  <2>1. /\ inv[c].pc = "begin" /\ "begin" \in Opening /\ "migrate" \in Opening
        /\ (inv[c].created \/ db.version > 0)
    BY <1>0, <1>5 DEF Begin, At, Opening, Waits
  <2>2. db'.file = db.file /\ db'.version = db.version
    BY <1>0, <1>5 DEF Begin, Database
  <2>3. /\ Moves(c) /\ inv'[c].pc = "migrate" /\ inv'[c].op = inv[c].op
        /\ inv'[c].created = inv[c].created
    BY <1>0, <1>a, <1>5, <2>1, GoesOnly DEF Begin
  <2> QED
    BY <1>b, <2>1, <2>2, <2>3
<1>6. CASE BeginBusy(c)
  BY <1>1, <1>6 DEF BeginBusy
<1>7. CASE Migrate(c)
  <2>1. CASE db' = [db EXCEPT !.tx = None] /\ Ends(c, "storage")
    <3>1. db'.file = db.file /\ db'.version = db.version
      BY <1>0, <2>1 DEF Database
    <3> QED
      BY <1>1, <2>1, <3>1
  <2>2. ASSUME NEW applied, db' = [db EXCEPT !.tx = None, !.version = Target, !.applied = applied],
               Opened(c)
        PROVE  Places'
    <3>1. db'.file = db.file /\ db'.version = Target /\ Target > 0
      BY <1>0, <2>2 DEF Database
    <3>2. /\ inv[c].pc = "migrate" /\ db.file = "plain" /\ (inv[c].created \/ db.version > 0)
      BY <1>0, <1>7 DEF Migrate, At, Waits, Opening
    <3>3. \A d \in Clis \ {c} : Looks(inv[d], db'.file) /\ Waits(inv[d], db'.file, db'.version)
      <4> SUFFICES ASSUME NEW d \in Clis \ {c}
                   PROVE  Waits(inv[d], db.file, Target)
        BY <1>0, <3>1
      <4>1. CASE inv[d].created /\ inv[d].pc \in Opening
        <5>1. db.version = 0
          BY <1>0, <4>1 DEF Waits, Opening
        <5>2. inv[c].created
          BY <3>2, <5>1
        <5> QED
          BY <4>1, <5>2 DEF Places, OneCreator
      <4> QED
        BY <1>0, <3>1, <4>1 DEF Waits
    <3>4. \/ inv'[c].pc = "idle" /\ inv'[c].op = "none" /\ ~inv'[c].created /\ Moves(c)
          \/ /\ inv'[c].pc = "opened" /\ inv'[c].op = inv[c].op /\ Moves(c)
             /\ inv'[c].created = inv[c].created
      BY <1>0, <1>a, <2>2, GoesOnly, EndsOnly DEF Opened
    <3>5. Looks(inv'[c], db'.file) /\ Waits(inv'[c], db'.file, db'.version)
      BY <1>0, <3>1, <3>2, <3>4 DEF Looks, Waits, Opening, Inspecting
    <3> QED
      BY <3>1, <3>2, <3>3, <3>4, <3>5, PlacesFrame
  <2> QED
    BY <1>7, <2>1, <2>2 DEF Migrate
<1> QED
  BY <1>2, <1>3, <1>4, <1>5, <1>6, <1>7 DEF OpenStep

(* A process that is started.                                              *)
LEMMA StartOnly ==
  ASSUME Types, NEW c \in Clis, NEW op \in Op, Start(c, op)
  PROVE  /\ Moves(c) /\ inv'[c].op = op /\ ~inv'[c].created
         /\ inv'[c].sure = (CASE op = "doctor" -> faults + 1
                              [] op = "submit" /\ healthy = faults + 1 -> healthy
                              [] OTHER -> 0)
         /\ inv'[c].pc = (CASE op \in {"submit", "durable", "dry_run", "list"} -> "config"
                            [] op \in {"install", "doctor"} -> "dirs"
                            [] OTHER -> "u_status")
<1> DEFINE sure == CASE op = "doctor" -> faults + 1
                     [] op = "submit" /\ healthy = faults + 1 -> healthy
                     [] OTHER -> 0
           pc == CASE op \in {"submit", "durable", "dry_run", "list"} -> "config"
                   [] op \in {"install", "doctor"} -> "dirs"
                   [] OTHER -> "u_status"
           new == [NoInvocation EXCEPT !.op = op, !.sure = sure, !.pc = pc]
<1>1. sure \in Nat /\ pc \in Pc
  BY DEF Types, Pc, ServicePc, Op
<1>2. inv' = [inv EXCEPT ![c] = new]
  BY DEF Start
<1> HIDE DEF sure, pc
<1>3. NoInvocation \in Invocation
  BY DEF NoInvocation, Invocation, Pc, Result
<1>4. new \in Invocation /\ new.op = op /\ new.sure = sure /\ new.pc = pc /\ ~new.created
  <2>1. new \in Invocation
    BY <1>1, <1>3 DEF Invocation
  <2> QED
    BY <2>1 DEF NoInvocation
<1> HIDE DEF new
<1>5. Moves(c) /\ inv'[c] = new
  BY <1>2, <1>4 DEF Types, Moves
<1> QED
  BY <1>4, <1>5 DEF sure, pc

LEMMA ElsePlaces ==
  ASSUME IInv, Places, PlaceTypes', Next
  PROVE  Places'
<1>0. Types /\ db \in Database
  BY DEF IInv, Types
<1>1. ASSUME NEW c \in Clis, DoctorFirst(c)
      PROVE  Places'
  <2>1. PICK fails \in SUBSET Checks : inv' = [inv EXCEPT ![c].pc = "file", ![c].fails = fails]
    BY <1>1 DEF DoctorFirst
  <2>2. Moves(c) /\ inv'[c].pc = "file" /\ inv'[c].op = "doctor" /\ inv'[c].created = inv[c].created
    <3>1. inv[c].op = "doctor"
      BY <1>1 DEF DoctorFirst
    <3>2. inv \in [Clis -> Invocation] /\ "file" \in Pc
      BY <1>0 DEF Types, Pc
    <3> QED
      BY <2>1, <3>1, <3>2 DEF Moves, Invocation
  <2>3. UNCHANGED db /\ inv[c].pc = "dirs"
    BY <1>1 DEF DoctorFirst, At
  <2>4. Looks(inv'[c], db'.file) /\ Waits(inv'[c], db'.file, db'.version)
    BY <2>2, <2>3 DEF Looks, Waits, Opening, Places
  <2> QED
    BY <2>2, <2>3, <2>4, PlacesFrame DEF Places
<1>2. ASSUME NEW c \in Clis, ServiceOperation(c)
      PROVE  Places'
  <2>1. /\ inv[c].pc \in ServicePc /\ UNCHANGED db
        /\ (\E pc \in ServicePc : Goes(c, pc)) \/ (\E res \in Result : Ends(c, res))
    BY <1>0, <1>2, ServiceMoves DEF ServiceOperation
  <2>2. \A pc \in ServicePc : /\ pc \in Pc \ Opening
                              /\ pc \notin {"acknowledge", "dirs", "config", "file", "prepare", "opened"}
    BY DEF ServicePc, Pc, Opening
  <2> QED
    BY <1>0, <2>1, <2>2, GoesPlaces, EndsPlaces
<1>3. ASSUME NEW c \in Clis, Crash(c)
      PROVE  Places'
  <2>1. db'.file = db.file /\ db'.version = db.version
    BY <1>0, <1>3 DEF Crash, RolledBack, Database
  <2>2. "killed" \in Result
    BY DEF Result
  <2> QED
    BY <1>0, <1>3, <2>1, <2>2, EndsPlaces DEF Crash
<1>4. ASSUME NEW c \in Clis, NEW op \in Op, Start(c, op)
      PROVE  Places'
  <2>1. /\ Moves(c) /\ inv'[c].op = op /\ ~inv'[c].created
        /\ inv'[c].pc = (CASE op \in {"submit", "durable", "dry_run", "list"} -> "config"
                           [] op \in {"install", "doctor"} -> "dirs"
                           [] OTHER -> "u_status")
    BY <1>0, <1>4, StartOnly
  <2>2. Looks(inv'[c], db.file) /\ Waits(inv'[c], db.file, db.version)
    BY <2>1 DEF Looks, Waits, Opening, Inspecting
  <2>3. UNCHANGED db
    BY <1>4 DEF Start
  <2> QED
    BY <2>1, <2>2, <2>3, PlacesFrame DEF Places
<1>5. ASSUME UNCHANGED <<inv, db>>
      PROVE  Places'
  BY <1>5 DEF Places, OneCreator
<1>6. CASE SessionEnds \/ Outside
  BY <1>5, <1>6 DEF SessionEnds, Outside, Restarted, ServiceDown, ManagerGoes, ManagerComes, Moved
<1>7. ASSUME NEW c \in Clis, Step(c)
      PROVE  Places'
  BY <1>1, <1>2, <1>7, CommandPlaces, OpenPlaces DEF Step, OpenDatabase
<1> QED
  BY <1>3, <1>4, <1>6, <1>7 DEF Next

LEMMA PlacesInvariant == Spec => []Places
<1>1. Init => Places
  <2> SUFFICES ASSUME Init
               PROVE  Places
    OBVIOUS
  <2>1. \A c \in Clis : inv[c] = NoInvocation
    BY DEF Init
  <2>2. NoInvocation.pc = "idle" /\ NoInvocation.op = "none" /\ ~NoInvocation.created
    BY DEF NoInvocation
  <2>3. PlaceTypes
    BY DEF Init, PlaceTypes
  <2>4. db.file = "absent" => db.version = 0
    <3>1. ASSUME NEW file, NEW v
          PROVE  AtVersion(file, v).file = file /\ AtVersion(file, v).version = v
      BY DEF AtVersion
    <3>2. [AtVersion("absent", 0) EXCEPT !.wal = FALSE].version = 0
      BY DEF AtVersion
    <3>3. \/ db = AtVersion("absent", 0) \/ db = [AtVersion("absent", 0) EXCEPT !.wal = FALSE]
          \/ db = AtVersion("insecure", Target) \/ \E v \in 1..(Target + 1) : db = AtVersion("plain", v)
      BY DEF Init, OpeningInit
    <3>4. CASE db = [AtVersion("absent", 0) EXCEPT !.wal = FALSE]
      BY <3>2, <3>4
    <3>5. CASE db = AtVersion("absent", 0)
      BY <3>1, <3>5
    <3>6. CASE db = AtVersion("insecure", Target) \/ \E v \in 1..(Target + 1) : db = AtVersion("plain", v)
      BY <3>1, <3>6
    <3> QED
      BY <3>3, <3>4, <3>5, <3>6
  <2> QED
    BY <2>1, <2>2, <2>3, <2>4 DEF Places, OneCreator, Looks, Waits, Inspecting, Opening
<1>2. IInv /\ Places /\ [Next]_vars => Places'
  <2>1. ASSUME IInv, Places, Next
        PROVE  Places'
    BY <2>1, NextDrifts, ElsePlaces DEF Places, Drifts
  <2>2. ASSUME Places, UNCHANGED vars
        PROVE  Places'
    BY <2>2 DEF vars, Places, PlaceTypes, OneCreator
  <2> QED
    BY <2>1, <2>2
<1> QED
  BY <1>1, <1>2, Invariant, PTL DEF Spec

(* Looking does not create: a preview, a list, a report or an uninstall    *)
(* makes no directory and no database (open_management, check_database     *)
(* and check_private_directory), whoever else runs at the same time.       *)
THEOREM InspectionCreatesNothingHolds == Spec => InspectionCreatesNothing
<1>1. ASSUME IInv, Places, Next, NEW c \in Clis, inv[c].op \in Inspecting, inv'[c] # inv[c]
      PROVE  dirs' = dirs /\ (db.file = "absent" => db'.file = "absent")
  <2>0. Types /\ Looks(inv[c], db.file) /\ db \in Database
    BY <1>1 DEF IInv, Places, Types
  <2>1. ASSUME NEW d \in Clis, Moves(d)
        PROVE  d = c
    BY <1>1, <2>1 DEF Moves
  <2>a. /\ \A res \in {"usage", "internal", "capability", "preview", "permission", "listed", "stored",
                       "unsupervised", "storage"} : res \in Result
        /\ {"i_status", "prepare", "observe"} \subseteq Pc
    BY DEF Result, Pc, ServicePc
  <2>2. ASSUME NEW d \in Clis, EnsureDirectories(d)
        PROVE  FALSE
    <3>1. Moves(d)
      BY <2>0, <2>a, <2>2, GoesOnly, EndsOnly DEF EnsureDirectories
    <3> QED
      BY <1>1, <2>0, <2>1, <2>2, <3>1 DEF EnsureDirectories, Looks, At
  <2>3. ASSUME NEW d \in Clis, Acknowledge(d)
        PROVE  FALSE
    <3>1. Moves(d)
      BY <2>0, <2>a, <2>3, EndsOnly DEF Acknowledge
    <3> QED
      BY <1>1, <2>0, <2>1, <2>3, <3>1 DEF Acknowledge, Looks, At
  <2>4. ASSUME NEW d \in Clis, PrepareFile(d), db.file = "absent"
        PROVE  FALSE
    <3>1. Moves(d)
      BY <2>0, <2>a, <2>4 DEF PrepareFile, Types, Moves, Invocation
    <3> QED
      BY <1>1, <2>0, <2>1, <2>4, <3>1 DEF PrepareFile, Looks, At
  <2>5. ASSUME NEW d \in Clis, OpenStep(d), db.file = "absent"
        PROVE  db'.file = "absent"
    <3>1. CASE Begin(d) \/ Migrate(d)
      BY <1>1, <2>5, <3>1 DEF Begin, Migrate, At, Places, Waits, Opening
    <3> QED
      BY <2>4, <2>5, <3>1 DEF OpenStep, Observe, ReadVersion, BeginBusy
  <2>6. ASSUME NEW d \in Clis, Crash(d)
        PROVE  db'.file = db.file
    BY <2>0, <2>6 DEF Crash, RolledBack, Database
  <2> QED
    BY <1>1, <2>2, <2>3, <2>5, <2>6
       DEF Next, Step, Configure, LookForDatabase, OpenDatabase, UseDatabase, DoctorFirst, DoctorRest,
           ServiceOperation, Crash, Start, SessionEnds, Outside, Others
<1>2. IInv /\ Places /\ [Next]_vars =>
        [\A c \in Clis :
           inv[c].op \in {"dry_run", "list", "doctor", "uninstall"} /\ inv'[c] # inv[c]
             => dirs' = dirs /\ (db.file = "absent" => db'.file = "absent")]_vars
  BY <1>1 DEF Inspecting
<1> QED
  BY <1>2, Invariant, PlacesInvariant, PTL DEF Spec, InspectionCreatesNothing

-------------------------------------------------------------------------------
(* What a healthy report is worth.                                         *)

(* Freshness is lost with the next fault, and never comes back.            *)
LEMMA AtMostNext ==
  ASSUME NEW f \in Nat, NEW g \in Nat, f <= g, NEW s \in Nat, s <= f + 1
  PROVE  s <= g + 1 /\ (s = g + 1 => g = f /\ s = f + 1)
OBVIOUS

LEMMA FreshBefore ==
  ASSUME faults \in Nat, Drifts, NEW s \in Nat, s <= faults + 1, s = faults' + 1
  PROVE  faults' = faults /\ Fresh(s)
<1>1. faults' \in Nat /\ faults <= faults'
  BY DEF Drifts
<1> QED
  BY <1>1, AtMostNext DEF Fresh

LEMMA OrderStays ==
  ASSUME Drifts, InOrder
  PROVE  InOrder'
BY DEF Drifts, InOrder

(* The steps of a process that is not opening the database.                *)
LEMMA UsableElsewhere ==
  ASSUME Types, Places, Usable, NEW c \in Clis, Moves(c), inv[c].pc \notin Opening, UNCHANGED db
  PROVE  Usable'
<1>1. ASSUME db.file = "plain", db.version = 0, Creating
      PROVE  Creating'
  <2>1. PICK d \in Clis : inv[d].created
    BY <1>1 DEF Creating
  <2>2. inv[d].pc \in Opening
    BY <1>1, <2>1 DEF Places, Waits, Types, Database
  <2> QED
    BY <2>1, <2>2 DEF Creating, Moves
<1> QED
  BY <1>1 DEF Usable

(* A database that is usable stays so until something fails.               *)
LEMMA OpenUsable ==
  ASSUME IInv, Places, Usable, NEW c \in Clis, OpenStep(c), faults' = faults
  PROVE  Usable'
<1>0. /\ Types /\ db \in Database /\ db.version \in Nat /\ Target \in Nat \ {0}
      /\ Waits(inv[c], db.file, db.version) /\ inv \in [Clis -> Invocation] /\ inv[c] \in Invocation
  BY OpeningAssumption DEF IInv, Types, Places, Database
<1>1. ASSUME ~inv[c].created, \A d \in Clis \ {c} : inv'[d] = inv[d], UNCHANGED db
      PROVE  Usable'
  BY <1>1 DEF Usable, Creating
<1>2. ASSUME inv'[c].created, db'.file = db.file, db'.version = db.version
      PROVE  Usable'
  BY <1>2 DEF Usable, Creating
<1>3. CASE PrepareFile(c)
  <2>1. CASE db.file = "absent"
    <3>1. inv'[c].created /\ db'.file = "plain" /\ db'.version = db.version /\ db.version = 0
      BY <1>0, <1>3, <2>1 DEF PrepareFile, Invocation, Database, Places
    <3> QED
      BY <3>1 DEF Usable, Creating
  <2>2. CASE db.file # "absent"
    <3>1. ~inv[c].created
      BY <1>0, <1>3 DEF PrepareFile, At, Waits, Opening
    <3>2. UNCHANGED db /\ \A d \in Clis \ {c} : inv'[d] = inv[d]
      BY <1>0, <1>3, <2>2 DEF PrepareFile, Ends
    <3> QED
      BY <1>1, <3>1, <3>2
  <2> QED
    BY <2>1, <2>2
<1>4. CASE Observe(c)
  <2>1. UNCHANGED db /\ \A d \in Clis \ {c} : inv'[d] = inv[d]
    BY <1>0, <1>4 DEF Observe, Ends, Goes
  <2>2. CASE inv[c].created
    <3>1. inv'[c].created
      BY <1>0, <1>4, <2>2 DEF Observe, Goes, Invocation
    <3> QED
      BY <1>2, <2>1, <3>1
  <2> QED
    BY <1>1, <2>1, <2>2
<1>5. CASE ReadVersion(c)
  <2>1. UNCHANGED db /\ \A d \in Clis \ {c} : inv'[d] = inv[d]
    BY <1>0, <1>5 DEF ReadVersion, Opened, Ends, Goes
  <2>2. CASE inv[c].created
    <3>1. db.version = 0
      BY <1>0, <1>5, <2>2 DEF Waits, ReadVersion, At, Opening
    <3>2. inv' = [inv EXCEPT ![c].pc = "begin", ![c].cur = db.version]
      BY <1>0, <1>5, <3>1 DEF ReadVersion
    <3>3. inv'[c].created
      BY <1>0, <2>2, <3>2 DEF Invocation
    <3> QED
      BY <1>2, <2>1, <3>3
  <2> QED
    BY <1>1, <2>1, <2>2
<1>6. CASE Begin(c)
  <2>1. /\ db'.file = db.file /\ db'.version = db.version
        /\ \A d \in Clis : inv'[d].created = inv[d].created
    BY <1>0, <1>6 DEF Begin, Goes, Database, Invocation
  <2> QED
    BY <2>1 DEF Usable, Creating
<1>7. CASE BeginBusy(c)
  BY <1>0, <1>7 DEF BeginBusy, Fault, Types
<1>8. CASE Migrate(c)
  <2>0. inv[c].pc = "migrate" /\ db.file = "plain"
    BY <1>0, <1>8 DEF Migrate, At, Waits, Opening
  <2>1. CASE /\ \E m \in (inv[c].cur + 1)..Target : db.applied[m] > 0
             /\ db' = [db EXCEPT !.tx = None] /\ Ends(c, "storage")
    <3>1. inv[c].cur \in Nat
      BY <1>0 DEF Invocation
    <3>2. PICK m \in (inv[c].cur + 1)..Target : db.applied[m] > 0
      BY <2>1
    <3>3. m \in 1..Target /\ db.version > 0
      BY <1>0, <3>1, <3>2 DEF IInv, MigratedOnce
    <3>4. db.version = Target
      BY <1>0, <2>0, <3>3 DEF Usable
    <3>5. db'.file = db.file /\ db'.version = db.version
      BY <1>0, <2>1 DEF Database
    <3> QED
      BY <2>0, <3>4, <3>5 DEF Usable
  <2>2. ASSUME NEW applied, db' = [db EXCEPT !.tx = None, !.version = Target, !.applied = applied]
        PROVE  Usable'
    <3>1. db'.file = db.file /\ db'.version = Target
      BY <1>0, <2>2 DEF Database
    <3> QED
      BY <2>0, <3>1 DEF Usable
  <2> QED
    BY <1>8, <2>1, <2>2 DEF Migrate
<1> QED
  BY <1>3, <1>4, <1>5, <1>6, <1>7, <1>8 DEF OpenStep

(* Everyone who does not take the step.                                    *)
LEMMA OthersTrust ==
  ASSUME Types, Drifts, Trusted, faults' = faults /\ Usable => Usable',
         NEW d \in Clis, inv'[d] = inv[d]
  PROVE  /\ inv'[d].sure <= faults' + 1 /\ Reports(d)' /\ Submits(d)'
         /\ (inv'[d].pc = "idle" /\ Fresh(inv[d].sure)') => Told(d)'
<1>0. faults \in Nat /\ inv[d].sure \in Nat /\ inv[d].sure <= faults + 1 /\ faults' \in Nat
        /\ faults <= faults'
  BY DEF Types, Invocation, Trusted, Drifts
<1>1. inv[d].sure = faults' + 1 => faults' = faults /\ Fresh(inv[d].sure)
  BY <1>0, FreshBefore
<1>2. Reports(d)'
  BY <1>1 DEF Trusted, Reports, Drifts, Fresh
<1>3. Submits(d)'
  BY <1>1, OrderStays DEF Trusted, Submits, Fresh
<1>4. (inv'[d].pc = "idle" /\ Fresh(inv[d].sure)') => Told(d)'
  BY <1>1 DEF Trusted, Told, Drifts, Fresh
<1> QED
  BY <1>0, <1>2, <1>3, <1>4

LEMMA TrustFrame ==
  ASSUME Types, Drifts, Trusted, faults' = faults /\ Usable => Usable',
         NEW c \in Clis, Moves(c),
         healthy' = healthy,
         inv'[c].sure <= faults' + 1, Reports(c)', Submits(c)',
         (inv'[c].pc = "idle" /\ inv'[c].sure = faults' + 1) => Told(c)'
  PROVE  Trusted'
<1>1. ASSUME NEW d \in Clis
      PROVE  /\ inv'[d].sure <= faults' + 1 /\ Reports(d)' /\ Submits(d)'
             /\ (inv'[d].pc = "idle" /\ inv'[d].sure = faults' + 1) => Told(d)'
  <2>1. CASE d # c
    BY <2>1, OthersTrust DEF Moves, Fresh
  <2> QED
    BY <2>1
<1>2. healthy \in Nat /\ healthy <= faults + 1 /\ faults \in Nat /\ faults' \in Nat /\ faults <= faults'
  BY DEF Types, Trusted, Drifts
<1>3. healthy <= faults' + 1
  BY <1>2, AtMostNext
<1>4. healthy = faults' + 1 => InOrder' /\ Usable'
  BY <1>2, FreshBefore, OrderStays DEF Trusted
<1> QED
  BY <1>1, <1>3, <1>4 DEF Trusted, Fresh

(* A process ends: if it was a submission after a healthy report, well.    *)
LEMMA EndsTrust ==
  ASSUME Types, Drifts, Trusted, faults' = faults /\ Usable => Usable', healthy' = healthy,
         NEW c \in Clis, NEW res \in Result, Ends(c, res),
         (inv[c].op = "submit" /\ Fresh(inv[c].sure) /\ faults' = faults)
           => \/ res = "stored"
              \/ /\ res = "unsupervised"
                 /\ host'.lock = "half" \/ dirs'.runtime = "orphan" \/ ~host'.log \/ ~host'.rows
              \/ dirs'.state = "orphan" \/ ~db'.wal
  PROVE  Trusted'
<1>1. /\ Moves(c) /\ inv'[c].pc = "idle" /\ inv'[c].op = "none" /\ inv'[c].res = res
      /\ inv'[c].sure = IF inv[c].op = "submit" THEN inv[c].sure ELSE 0
  BY EndsOnly
<1>2. inv[c].sure \in Nat /\ inv[c].sure <= faults + 1 /\ faults \in Nat /\ faults' \in Nat
        /\ faults <= faults'
  BY DEF Types, Invocation, Trusted, Drifts
<1>3. inv'[c].sure <= faults' + 1
  BY <1>1, <1>2
<1>4. inv'[c].sure = faults' + 1 => inv[c].op = "submit" /\ Fresh(inv[c].sure) /\ faults' = faults
  <2> SUFFICES ASSUME inv'[c].sure = faults' + 1
               PROVE  inv[c].op = "submit" /\ Fresh(inv[c].sure) /\ faults' = faults
    OBVIOUS
  <2>1. inv[c].op = "submit" /\ inv[c].sure = faults' + 1
    BY <1>1, <1>2
  <2> QED
    BY <1>2, <2>1, FreshBefore
<1>5. Reports(c)' /\ Submits(c)'
  BY <1>1 DEF Reports, Submits
<1>6. inv'[c].sure = faults' + 1 => Told(c)'
  BY <1>1, <1>4 DEF Told
<1> QED
  BY <1>1, <1>3, <1>5, <1>6, TrustFrame

(* A process goes on.                                                      *)
LEMMA GoesTrust ==
  ASSUME Types, Drifts, Trusted, faults' = faults /\ Usable => Usable', healthy' = healthy,
         NEW c \in Clis, Moves(c), inv'[c].op = inv[c].op, inv'[c].sure = inv[c].sure,
         inv'[c].fails = inv[c].fails, inv'[c].pc # "idle",
         inv[c].op = "doctor" => inv[c].pc # "dirs",
         (inv[c].op = "doctor" /\ inv'[c].pc = "opened") => Usable',
         (inv[c].op = "submit" /\ Fresh(inv[c].sure) /\ inv'[c].pc \in {"begin", "migrate"})
           => inv'[c].created
  PROVE  Trusted'
<1>0. faults \in Nat /\ inv[c].sure \in Nat /\ inv[c].sure <= faults + 1 /\ faults' \in Nat
        /\ faults <= faults'
  BY DEF Types, Invocation, Trusted, Drifts
<1>1. inv[c].sure = faults' + 1 => faults' = faults /\ Fresh(inv[c].sure)
  BY <1>0, FreshBefore
<1>2. Reports(c)'
  BY <1>1 DEF Trusted, Reports, Drifts, Fresh
<1>3. Submits(c)'
  BY <1>1, OrderStays DEF Trusted, Submits, Fresh
<1>4. inv'[c].sure <= faults' + 1
  BY <1>0
<1> QED
  BY <1>2, <1>3, <1>4, TrustFrame

LEMMA CommandTrust ==
  ASSUME IInv, Places, Trusted, Drifts, NEW c \in Clis,
         \/ Configure(c) \/ EnsureDirectories(c) \/ LookForDatabase(c)
         \/ UseDatabase(c) \/ Acknowledge(c)
  PROVE  Trusted'
<1>0. Types /\ Submits(c) /\ PlaceTypes
  BY DEF IInv, Trusted, Places
<1>a. /\ \A res \in {"usage", "internal", "capability", "preview", "permission", "listed", "stored",
                     "unsupervised"} : res \in Result
      /\ {"file", "dirs", "prepare", "opened", "acknowledge", "i_status"} \subseteq Pc
  BY DEF Result, Pc, ServicePc
<1>1. UNCHANGED <<db, healthy>> /\ inv[c].pc \notin Opening
  BY DEF Configure, EnsureDirectories, LookForDatabase, UseDatabase, Acknowledge, Others, At, Opening
<1>2. ASSUME NEW res \in Result, Ends(c, res),
             (inv[c].op = "submit" /\ Fresh(inv[c].sure))
               => \/ res = "stored"
                  \/ /\ res = "unsupervised"
                     /\ host'.lock = "half" \/ dirs'.runtime = "orphan" \/ ~host'.log \/ ~host'.rows
                  \/ dirs'.state = "orphan" \/ ~db'.wal
      PROVE  Trusted'
  <2>1. Moves(c)
    BY <1>0, <1>2, EndsOnly
  <2>2. Usable => Usable'
    BY <1>0, <1>1, <2>1, UsableElsewhere
  <2> QED
    BY <1>0, <1>1, <1>2, <2>2, EndsTrust
<1>3. ASSUME NEW pc \in Pc, Goes(c, pc), pc \notin {"idle", "begin", "migrate"},
             inv[c].op = "doctor" => inv[c].pc # "dirs" /\ (pc = "opened" => Usable)
      PROVE  Trusted'
  <2>1. /\ Moves(c) /\ inv'[c].pc = pc /\ inv'[c].op = inv[c].op /\ inv'[c].fails = inv[c].fails
        /\ inv'[c].sure = inv[c].sure
    BY <1>0, <1>3, GoesOnly
  <2>2. Usable => Usable'
    BY <1>0, <1>1, <2>1, UsableElsewhere
  <2> QED
    BY <1>0, <1>1, <1>3, <2>1, <2>2, GoesTrust
<1>4. CASE Configure(c)
  <2>1. /\ \/ \E res \in Result : Ends(c, res) /\ (inv[c].op = "submit" => ~host.config \/ ~host.clocks)
           \/ Goes(c, "file") \/ Goes(c, "dirs")
        /\ inv[c].pc = "config"
    BY <1>4, <1>a DEF Configure, At, ClocksRead
  <2> QED
    BY <1>0, <1>a, <1>2, <1>3, <2>1 DEF Submits, InOrder
<1>5. CASE EnsureDirectories(c)
  <2>1. CASE \E pc \in {"i_status", "prepare"} : Goes(c, pc)
    BY <1>5, <1>a, <1>3, <2>1 DEF EnsureDirectories
  <2>2. CASE Ends(c, "permission")
    <3>1. (inv[c].op = "submit" /\ Fresh(inv[c].sure)) => dirs'.state = "orphan"
      <4> SUFFICES ASSUME inv[c].op = "submit", Fresh(inv[c].sure)
                   PROVE  dirs'.state = "orphan"
        OBVIOUS
      <4>1. inv'[c].pc = "idle"
        BY <1>0, <1>a, <2>2, EndsOnly
      <4>2. ~CanBePrivate("state")
        <5>1. ASSUME CanBePrivate("state")
              PROVE  FALSE
          <6>1. Goes(c, "prepare")
            BY <1>5, <5>1 DEF EnsureDirectories
          <6> QED
            BY <1>0, <1>a, <4>1, <6>1, GoesOnly
        <5> QED
          BY <5>1
      <4>3. dirs' = dirs
        BY <1>5, <4>2 DEF EnsureDirectories
      <4>4. dirs.state # "insecure"
        BY <1>0 DEF Submits, InOrder
      <4> QED
        BY <1>0, <4>2, <4>3, <4>4 DEF CanBePrivate, PlaceTypes, DirState
    <3> QED
      BY <1>a, <1>2, <2>2, <3>1
  <2> QED
    BY <1>5, <2>1, <2>2 DEF EnsureDirectories
<1>6. CASE LookForDatabase(c)
  <2>1. /\ \/ Ends(c, "listed") /\ inv[c].op = "list"
           \/ Goes(c, "prepare")
           \/ Goes(c, "opened") /\ db.file = "absent"
        /\ inv[c].pc = "file"
    BY <1>6 DEF LookForDatabase, At
  <2> QED
    BY <1>a, <1>2, <1>3, <2>1 DEF Usable
<1>7. CASE UseDatabase(c)
  <2>1. /\ \/ Ends(c, "listed") /\ inv[c].op = "list"
           \/ Goes(c, "acknowledge")
        /\ inv[c].op # "doctor"
    BY <1>7 DEF UseDatabase, At
  <2> QED
    BY <1>a, <1>2, <1>3, <2>1
<1>8. CASE Acknowledge(c)
  <2>1. CASE Ends(c, "stored")
    BY <1>a, <1>2, <2>1
  <2>2. CASE Ends(c, "unsupervised") /\ Fault
    <3>1. faults' # faults
      BY <1>0, <2>2, FaultDrifts
    <3> QED
      BY <1>0, <1>1, <1>a, <2>2, <3>1, EndsTrust
  <2>3. CASE Ends(c, "unsupervised") /\ ~Serving /\ ~(TakesLock /\ host.rows)
    <3>1. ASSUME inv[c].op = "submit", Fresh(inv[c].sure)
          PROVE  \/ host'.lock = "half" \/ dirs'.runtime = "orphan" \/ ~host'.log \/ ~host'.rows
                 \/ dirs'.state = "orphan"
      <4>1. /\ host.identity /\ host.lock # "insecure" /\ dirs.state # "insecure"
            /\ dirs.runtime # "insecure"
        BY <1>0, <3>1 DEF Submits, InOrder
      <4>2. host'.log = host.log /\ host'.rows = host.rows
        BY DEF Drifts
      <4>3. CASE CanStart /\ host.log /\ host.rows
        <5>1. ~TakesLock /\ host' = host
          BY <1>8, <2>3, <4>3 DEF Acknowledge, start_session_supervisor
        <5>2. host.lock \notin {"none", "stale", "live", "insecure"}
          BY <2>3, <4>1, <4>3, <5>1 DEF TakesLock, open_or_create_private_append_log, Serving
        <5> QED
          BY <1>0, <5>1, <5>2 DEF PlaceTypes, HostState
      <4>4. CASE ~CanStart
        <5>1. dirs' = dirs
          BY <1>8, <2>3, <4>4 DEF Acknowledge, start_session_supervisor
        <5> QED
          BY <1>0, <4>1, <4>4, <5>1 DEF PlaceTypes, CanStart, CanBePrivate, DirState
      <4> QED
        BY <4>2, <4>3, <4>4
    <3> QED
      BY <1>a, <1>2, <2>3, <3>1
  <2> QED
    BY <1>8, <2>1, <2>2, <2>3 DEF Acknowledge
<1> QED
  BY <1>4, <1>5, <1>6, <1>7, <1>8

LEMMA OpenTrust ==
  ASSUME IInv, Places, Trusted, Drifts, NEW c \in Clis, OpenStep(c), healthy' = healthy
  PROVE  Trusted'
<1>0. /\ Types /\ Submits(c) /\ db \in Database /\ db.version \in Nat /\ Target \in Nat \ {0}
      /\ faults \in Nat /\ Waits(inv[c], db.file, db.version) /\ inv[c] \in Invocation
  BY OpeningAssumption DEF IInv, Types, Trusted, Places, Database
<1>a. "storage" \in Result /\ Opening \cup {"opened"} \subseteq Pc
  BY DEF Result, Opening, Pc
<1>1. faults' = faults /\ Usable => Usable'
  BY OpenUsable
<1>2. ASSUME Ends(c, "storage"),
             (inv[c].op = "submit" /\ Fresh(inv[c].sure) /\ Usable /\ faults' = faults) => ~db'.wal
      PROVE  Trusted'
  <2>1. (inv[c].op = "submit" /\ Fresh(inv[c].sure)) => Usable
    BY <1>0 DEF Submits
  <2> QED
    BY <1>0, <1>a, <1>1, <1>2, <2>1, EndsTrust
<1>3. ASSUME Moves(c), inv'[c].op = inv[c].op, inv'[c].sure = inv[c].sure, inv'[c].fails = inv[c].fails,
             inv'[c].pc # "idle", inv'[c].pc = "opened" => Usable',
             (Fresh(inv[c].sure) /\ inv[c].op = "submit" /\ inv'[c].pc \in {"begin", "migrate"})
               => inv'[c].created
      PROVE  Trusted'
  <2>1. inv[c].pc # "dirs"
    BY DEF OpenStep, PrepareFile, Observe, ReadVersion, Begin, BeginBusy, Migrate, At
  <2> QED
    BY <1>0, <1>1, <1>3, <2>1, GoesTrust
<1>4. CASE PrepareFile(c)
  <2>1. CASE db.file \in {"absent", "plain"}
    <3>1. /\ Moves(c) /\ inv'[c].op = inv[c].op /\ inv'[c].sure = inv[c].sure
          /\ inv'[c].fails = inv[c].fails /\ inv'[c].pc = "observe"
      BY <1>0, <1>4, <2>1, OpeningAssumption DEF PrepareFile, Types, Moves, Invocation, Pc
    <3> QED
      BY <1>3, <3>1
  <2>2. CASE db.file \notin {"absent", "plain"}
    BY <1>2, <1>4, <2>2 DEF PrepareFile, Usable
  <2> QED
    BY <2>1, <2>2
<1>5. CASE Observe(c)
  <2>1. CASE Goes(c, "version")
    BY <1>0, <1>a, <1>3, <2>1, GoesOnly DEF Opening
  <2>2. CASE inv' = [inv EXCEPT ![c].left = @ - 1] /\ inv[c].left > 1
    <3>1. /\ Moves(c) /\ inv'[c].op = inv[c].op /\ inv'[c].sure = inv[c].sure
          /\ inv'[c].fails = inv[c].fails /\ inv'[c].pc = inv[c].pc /\ inv[c].pc = "observe"
      BY <1>0, <1>5, <2>2 DEF Types, Moves, Invocation, Observe, At
    <3> QED
      BY <1>3, <3>1
  <2>3. CASE /\ ~inv[c].created /\ db.version = 0 /\ Ends(c, "storage") /\ UNCHANGED db
             /\ IF Creating THEN Fault ELSE UNCHANGED faults
    <3>1. db.file = "plain"
      BY <1>0, <1>5 DEF Waits, Observe, At, Opening
    <3>2. Usable => faults' # faults
      BY <1>0, <2>3, <3>1 DEF Usable, Fault
    <3> QED
      BY <1>2, <2>3, <3>2
  <2> QED
    BY <1>5, <2>1, <2>2, <2>3 DEF Observe
<1>6. CASE ReadVersion(c)
  <2>0. db.file = "plain" /\ UNCHANGED db /\ (db.version = 0 => inv[c].created)
    BY <1>0, <1>6 DEF Waits, ReadVersion, At, Opening
  <2>1. CASE Ends(c, "storage") /\ db.version > Target
    BY <1>0, <1>2, <2>0, <2>1 DEF Usable
  <2>2. CASE Ends(c, "storage") /\ ~db.wal
    BY <1>2, <2>0, <2>2
  <2>3. CASE Goes(c, "opened") /\ db.version = Target
    <3>1. Usable'
      BY <2>0, <2>3 DEF Usable
    <3> QED
      BY <1>0, <1>a, <1>3, <2>3, <3>1, GoesOnly
  <2>4. CASE inv' = [inv EXCEPT ![c].pc = "begin", ![c].cur = db.version] /\ db.version # Target
    <3>1. /\ Moves(c) /\ inv'[c].op = inv[c].op /\ inv'[c].sure = inv[c].sure
          /\ inv'[c].fails = inv[c].fails /\ inv'[c].pc = "begin" /\ inv'[c].created = inv[c].created
      BY <1>0, <2>4 DEF Types, Moves, Invocation, Pc
    <3>2. (Fresh(inv[c].sure) /\ inv[c].op = "submit") => inv[c].created
      BY <1>0, <2>0, <2>4 DEF Submits, Usable
    <3> QED
      BY <1>3, <3>1, <3>2
  <2> QED
    BY <1>6, <2>1, <2>2, <2>3, <2>4 DEF ReadVersion, Opened, verify_pragmas
<1>7. CASE Begin(c)
  <2>1. /\ Moves(c) /\ inv'[c].op = inv[c].op /\ inv'[c].sure = inv[c].sure
        /\ inv'[c].fails = inv[c].fails /\ inv'[c].pc = "migrate" /\ inv'[c].created = inv[c].created
    BY <1>0, <1>a, <1>7, GoesOnly DEF Begin, Opening
  <2>2. (Fresh(inv[c].sure) /\ inv[c].op = "submit") => inv[c].created
    BY <1>0, <1>7 DEF Submits, Begin, At
  <2> QED
    BY <1>3, <2>1, <2>2
<1>8. CASE BeginBusy(c)
  BY <1>0, <1>2, <1>8 DEF BeginBusy, Fault
<1>9. CASE Migrate(c)
  <2>0. db.file = "plain" /\ inv[c].pc = "migrate" /\ (inv[c].created => db.version = 0)
    BY <1>0, <1>9 DEF Migrate, At, Waits, Opening
  <2>1. CASE /\ \E m \in (inv[c].cur + 1)..Target : db.applied[m] > 0
             /\ Ends(c, "storage")
    <3>1. PICK m \in (inv[c].cur + 1)..Target : db.applied[m] > 0
      BY <2>1
    <3>2. inv[c].cur \in Nat
      BY <1>0 DEF Invocation
    <3>3. m \in 1..Target /\ db.version > 0
      BY <1>0, <3>1, <3>2 DEF IInv, MigratedOnce
    <3>4. ~(inv[c].op = "submit" /\ Fresh(inv[c].sure))
      BY <1>0, <2>0, <3>3 DEF Submits
    <3> QED
      BY <1>2, <2>1, <3>4
  <2>2. ASSUME NEW applied, db' = [db EXCEPT !.tx = None, !.version = Target, !.applied = applied],
               Opened(c)
        PROVE  Trusted'
    <3>1. db'.file = "plain" /\ db'.version = Target /\ db'.wal = db.wal
      BY <1>0, <2>0, <2>2 DEF Database
    <3>2. CASE Goes(c, "opened")
      <4>1. Usable'
        BY <3>1 DEF Usable
      <4> QED
        BY <1>0, <1>a, <1>3, <3>2, <4>1, GoesOnly
    <3>3. CASE Ends(c, "storage") /\ ~db.wal
      BY <1>2, <3>1, <3>3
    <3> QED
      BY <2>2, <3>2, <3>3 DEF Opened, verify_pragmas
  <2> QED
    BY <1>9, <2>1, <2>2 DEF Migrate
<1> QED
  BY <1>4, <1>5, <1>6, <1>7, <1>8, <1>9 DEF OpenStep

(* The report: what it did not find wrong is in order.                     *)
LEMMA DoctorTrust ==
  ASSUME IInv, Places, Trusted, Drifts, NEW c \in Clis, DoctorFirst(c) \/ DoctorRest(c)
  PROVE  Trusted'
<1>0. /\ Types /\ faults \in Nat /\ inv[c].sure \in Nat /\ inv[c].sure <= faults + 1
      /\ inv[c].op = "doctor" /\ UNCHANGED <<db, faults, dirs, host>> /\ inv[c].pc \notin Opening
  BY DEF IInv, Types, Invocation, Trusted, DoctorFirst, DoctorRest, Others, At, Opening
<1>1. CASE DoctorFirst(c)
  <2> DEFINE wrong == {x \in Checks : \/ x = "state directory" /\ check_private_directory("state")
                                      \/ x = "runtime directory" /\ check_private_directory("runtime")
                                      \/ x = "configuration" /\ ~host.config}
  <2>1. inv' = [inv EXCEPT ![c].pc = "file", ![c].fails = wrong] /\ wrong \in SUBSET Checks
    BY <1>1 DEF DoctorFirst
  <2>2. wrong = {} => host.config /\ dirs.state # "insecure" /\ dirs.runtime # "insecure"
    BY DEF Checks, check_private_directory
  <2> HIDE DEF wrong
  <2>3. /\ Moves(c) /\ inv'[c].pc = "file" /\ inv'[c].op = inv[c].op /\ inv'[c].fails = wrong
        /\ inv'[c].sure = inv[c].sure
    BY <1>0, <2>1 DEF Types, Moves, Invocation, Pc
  <2>4. Usable => Usable'
    BY <1>0, <2>3, UsableElsewhere
  <2>5. Reports(c)' /\ Submits(c)'
    BY <1>0, <2>2, <2>3 DEF Reports, Submits
  <2>6. healthy' = healthy
    BY <1>1 DEF DoctorFirst, Others
  <2> QED
    BY <1>0, <2>3, <2>4, <2>5, <2>6, TrustFrame
<1>2. CASE DoctorRest(c)
  <2> DEFINE fails == inv[c].fails \cup
                        {x \in Checks : \/ x = "clocks" /\ ~ClocksRead
                                        \/ x = "process identity" /\ ClocksRead /\ ~host.identity
                                        \/ x = "supervisor" /\ ClocksRead /\ check_supervisor}
  <2>1. Ends(c, doctor_exit(fails)) /\ healthy' = (IF fails = {} THEN inv[c].sure ELSE 0)
          /\ inv[c].pc = "opened"
    BY <1>2 DEF DoctorRest, At
  <2>2. fails = {} => /\ inv[c].fails = {} /\ host.clocks /\ host.identity
                      /\ host.lock # "insecure"
    BY DEF Checks, ClocksRead, check_supervisor
  <2> HIDE DEF fails
  <2>3. doctor_exit(fails) \in Result
    BY DEF doctor_exit, Result
  <2>4. Moves(c) /\ inv'[c].pc = "idle" /\ inv'[c].op = "none" /\ inv'[c].sure = 0
    BY <1>0, <2>1, <2>3, EndsOnly
  <2>5. Usable => Usable'
    BY <1>0, <2>4, UsableElsewhere
  <2>6. (fails = {} /\ Fresh(inv[c].sure)) => InOrder /\ Usable
    BY <1>0, <2>1, <2>2 DEF Trusted, Reports, InOrder
  <2>7. healthy' <= faults' + 1 /\ (healthy' = faults' + 1 => fails = {} /\ Fresh(inv[c].sure))
    BY <1>0, <2>1 DEF Fresh
  <2>8. ASSUME NEW d \in Clis
        PROVE  /\ inv'[d].sure <= faults' + 1 /\ Reports(d)' /\ Submits(d)'
               /\ (inv'[d].pc = "idle" /\ inv'[d].sure = faults' + 1) => Told(d)'
    <3>1. CASE d # c
      BY <1>0, <2>4, <2>5, <3>1, OthersTrust DEF Moves, Fresh
    <3>2. CASE d = c
      BY <1>0, <2>4, <3>2 DEF Reports, Submits
    <3> QED
      BY <3>1, <3>2
  <2>9. healthy' = faults' + 1 => InOrder' /\ Usable'
    BY <2>5, <2>6, <2>7, OrderStays
  <2> QED
    BY <2>7, <2>8, <2>9 DEF Trusted, Fresh
<1> QED
  BY <1>1, <1>2

LEMMA StartTrust ==
  ASSUME IInv, Places, Trusted, Drifts, NEW c \in Clis, NEW op \in Op, Start(c, op)
  PROVE  Trusted'
<1>0. /\ Types /\ faults \in Nat /\ healthy \in Nat /\ healthy <= faults + 1
      /\ UNCHANGED <<db, faults, dirs, host, healthy>> /\ inv[c].pc \notin Opening
  BY DEF IInv, Types, Trusted, Start, Others, At, Opening
<1>1. /\ Moves(c) /\ inv'[c].op = op
      /\ inv'[c].sure = (CASE op = "doctor" -> faults + 1
                           [] op = "submit" /\ healthy = faults + 1 -> healthy
                           [] OTHER -> 0)
      /\ inv'[c].pc = (CASE op \in {"submit", "durable", "dry_run", "list"} -> "config"
                         [] op \in {"install", "doctor"} -> "dirs"
                         [] OTHER -> "u_status")
  BY <1>0, StartOnly
<1>2. Usable => Usable'
  BY <1>0, <1>1, UsableElsewhere
<1>3. inv'[c].sure <= faults' + 1 /\ inv'[c].pc # "idle"
  BY <1>0, <1>1
<1>4. Reports(c)'
  BY <1>1 DEF Reports
<1>5. ASSUME op = "submit", inv'[c].sure = faults' + 1
      PROVE  InOrder' /\ Usable'
  <2>1. Fresh(healthy)
    BY <1>0, <1>1, <1>5 DEF Fresh
  <2> QED
    BY <1>2, <2>1, OrderStays DEF Trusted
<1>6. Submits(c)'
  <2>1. op = "submit" => inv'[c].pc = "config"
    BY <1>1
  <2> QED
    BY <1>1, <1>5, <2>1 DEF Submits, Fresh
<1> QED
  BY <1>0, <1>1, <1>2, <1>3, <1>4, <1>6, TrustFrame

LEMMA ElseTrust ==
  ASSUME IInv, Places, Trusted, Drifts, Next
  PROVE  Trusted'
<1>0. Types /\ faults \in Nat
  BY DEF IInv, Types
<1>1. ASSUME NEW c \in Clis, ServiceOperation(c)
      PROVE  Trusted'
  <2>1. /\ inv[c].pc \in ServicePc /\ UNCHANGED <<db, healthy>>
        /\ (\E pc \in ServicePc : Goes(c, pc)) \/ (\E res \in Result : Ends(c, res))
    BY <1>0, <1>1, ServiceMoves DEF ServiceOperation, Others
  <2>2. inv[c].pc \notin Opening /\ inv[c].op \in {"install", "uninstall"}
    BY <2>1 DEF IInv, Alone, ServicePc, ServiceOp, Opening
  <2>3. ASSUME NEW pc \in ServicePc, Goes(c, pc)
        PROVE  Trusted'
    <3>1. /\ Moves(c) /\ inv'[c].op = inv[c].op /\ inv'[c].sure = inv[c].sure
          /\ inv'[c].fails = inv[c].fails /\ inv'[c].pc = pc
      BY <1>0, <2>3, GoesOnly DEF Pc
    <3>2. Usable => Usable'
      BY <1>0, <2>1, <2>2, <3>1, UsableElsewhere
    <3>3. pc # "idle"
      BY <2>3 DEF ServicePc
    <3> QED
      BY <1>0, <2>1, <2>2, <3>1, <3>2, <3>3, GoesTrust
  <2>4. ASSUME NEW res \in Result, Ends(c, res)
        PROVE  Trusted'
    <3>1. Moves(c)
      BY <1>0, <2>4, EndsOnly
    <3>2. Usable => Usable'
      BY <1>0, <2>1, <2>2, <3>1, UsableElsewhere
    <3> QED
      BY <1>0, <2>1, <2>2, <2>4, <3>2, EndsTrust
  <2> QED
    BY <2>1, <2>3, <2>4
<1>2. ASSUME NEW c \in Clis, Crash(c)
      PROVE  Trusted'
  <2>1. faults' # faults /\ healthy' = healthy /\ Ends(c, "killed") /\ "killed" \in Result
    BY <1>0, <1>2 DEF Crash, Fault, Others, Result
  <2> QED
    BY <1>0, <2>1, EndsTrust
<1>3. CASE SessionEnds \/ Outside
  <2>1. UNCHANGED <<inv, db, healthy>>
    BY <1>3 DEF SessionEnds, Outside, Restarted, ServiceDown, ManagerGoes, ManagerComes, Moved, Others
  <2>2. Usable => Usable'
    BY <2>1 DEF Usable, Creating
  <2>3. ASSUME NEW d \in Clis
        PROVE  /\ inv'[d].sure <= faults' + 1 /\ Reports(d)' /\ Submits(d)'
               /\ (inv'[d].pc = "idle" /\ inv'[d].sure = faults' + 1) => Told(d)'
    BY <1>0, <2>1, <2>2, OthersTrust DEF Fresh
  <2>4. healthy \in Nat /\ healthy <= faults + 1 /\ faults' \in Nat /\ faults <= faults'
    BY DEF IInv, Types, Trusted, Drifts
  <2>5. healthy' <= faults' + 1
    BY <1>0, <2>1, <2>4, AtMostNext
  <2>6. healthy' = faults' + 1 => InOrder' /\ Usable'
    BY <1>0, <2>1, <2>2, <2>4, FreshBefore, OrderStays DEF Trusted
  <2> QED
    BY <2>3, <2>5, <2>6 DEF Trusted, Fresh
<1>4. ASSUME NEW c \in Clis, Step(c)
      PROVE  Trusted'
  BY <1>1, <1>4, CommandTrust, OpenTrust, DoctorTrust DEF Step, OpenDatabase, Others
<1> QED
  BY <1>2, <1>3, <1>4, StartTrust DEF Next

(* After a healthy report, and nothing failing since, a submission is      *)
(* saved, by however many processes at a time, apart from what             *)
(* HealthyThenStored leaves out: no check of build_doctor_report overlooks *)
(* what submit_job needs.                                                  *)
THEOREM HealthyThenStoredHolds == Spec => []HealthyThenStored
<1>1. Init => Trusted
  <2> SUFFICES ASSUME Init
               PROVE  Trusted
    OBVIOUS
  <2>1. \A c \in Clis : inv[c] = NoInvocation
    BY DEF Init
  <2>2. NoInvocation.sure = 0 /\ NoInvocation.op = "none"
    BY DEF NoInvocation
  <2>3. faults = 0 /\ healthy = 0
    BY DEF Init
  <2> QED
    BY <2>1, <2>2, <2>3 DEF Trusted, Fresh, Reports, Submits
<1>2. IInv /\ Places /\ Trusted /\ [Next]_vars => Trusted'
  <2>1. ASSUME IInv, Places, Trusted, Next
        PROVE  Trusted'
    BY <2>1, NextDrifts, ElseTrust DEF Places
  <2>2. ASSUME Trusted, UNCHANGED vars
        PROVE  Trusted'
    BY <2>2 DEF vars, Trusted, Fresh, Reports, Submits, Told, InOrder, Usable, Creating
  <2> QED
    BY <2>1, <2>2
<1>3. Trusted => HealthyThenStored
  BY DEF Trusted, HealthyThenStored, Told, Fresh, At
<1> QED
  BY <1>1, <1>2, <1>3, Invariant, PlacesInvariant, PTL DEF Spec

===============================================================================
