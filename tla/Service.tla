-------------------------------- MODULE Service --------------------------------
(***************************************************************************)
(* atx service install and uninstall (src/application/service.rs) over the *)
(* two adapters, the systemd user manager and launchd                      *)
(* (src/infrastructure/service/systemd.rs, macos.rs).  Each step is one    *)
(* system call or one systemctl or launchctl command; any may fail, the    *)
(* process may die between any two, and nothing keeps another one from     *)
(* doing the same between them.                                            *)
(***************************************************************************)
EXTENDS Invocations

VARIABLES
  svc        \* the unit file, its temporary file, and what the manager knows

(* unit: the file is absent, what this binary and state directory would    *)
(* write, the beginning of that, what they wrote before they moved, or     *)
(* something else; tmpBy, unitBy: the process that has yet to write the    *)
(* file of that name; reg: enabled (systemd) or bootstrapped (launchd);    *)
(* up: the supervisor runs; avail: the manager answers.                    *)
ServiceState ==
  [platform : {"systemd", "launchd"}, unit : {"none", "part", "ours", "moved", "other"},
   tmp : {"none", "part", "full"}, tmpBy : Clis \cup {None}, unitBy : Clis \cup {None},
   reg : BOOLEAN, up : BOOLEAN, avail : BOOLEAN]

ServiceInit ==
  svc \in [platform : {"systemd", "launchd"}, unit : {"none", "other"}, tmp : {"none"},
           tmpBy : {None}, unitBy : {None}, reg : {FALSE}, up : {FALSE}, avail : {TRUE}]

ServicePc == {"i_status", "i_check", "i_create", "i_write", "i_rename", "i_mode", "i_reload",
              "i_enable", "i_verify",
              "u_status", "u_check", "u_disable", "u_remove", "u_reload", "u_verify"}

(* installed: a unit that is not ours is an error.                         *)
Refuses == svc.unit \in {"part", "moved", "other"}

(* systemctl is-active; launchctl print, for which loaded is running.  The *)
(* manager's answers are true.                                             *)
is_active == svc.platform = "systemd" /\ svc.reg /\ svc.up

is_loaded == svc.platform = "launchd" /\ svc.reg

manager_available == svc.avail

running == manager_available /\ svc.unit = "ours" /\ (is_active \/ is_loaded)

Keep == UNCHANGED faults

(* How uninstall ends: as the operation itself, or as install's rollback.  *)
UninstallOk(c) == IF inv[c].op = "install" THEN Ends(c, "rolled_back") ELSE Goes(c, "u_verify")

UninstallErr(c) ==
  Ends(c, IF inv[c].op = "install" THEN "rollback_failed" ELSE "capability")

-------------------------------------------------------------------------------
(* install_service.                                                        *)
InstallStatus(c) ==
  /\ At(c, "i_status")
  /\ IF Refuses \/ ~manager_available THEN Ends(c, "capability")
     ELSE IF running THEN Ends(c, "unchanged")
     ELSE Goes(c, "i_check")
  /\ UNCHANGED svc /\ Keep

(* The adapters' install: a unit that is there is left as it is.           *)
CheckUnit(c) ==
  /\ At(c, "i_check") /\ svc.platform = "systemd"
  /\ Goes(c, IF Refuses \/ ~manager_available THEN "u_check"
             ELSE IF svc.unit = "ours" THEN "i_verify" ELSE "i_create")
  /\ UNCHANGED svc /\ Keep

CheckAgent(c) ==
  /\ At(c, "i_check") /\ svc.platform = "launchd"
  /\ Goes(c, IF Refuses THEN "u_check" ELSE IF svc.unit = "ours" THEN "i_verify" ELSE "i_create")
  /\ UNCHANGED svc /\ Keep

(* A process that is over, or gives up, closes its file; one that cannot   *)
(* create, write or rename the temporary file removes what has its name.   *)
Closed(c) == [svc EXCEPT !.tmpBy = IF @ = c THEN None ELSE @,
                         !.unitBy = IF @ = c THEN None ELSE @]

WithoutTemporary == [svc EXCEPT !.tmp = "none", !.tmpBy = None]

(* create_new fails when the file is there.                                *)
CreateTemporary_Left(c) ==
  /\ At(c, "i_create")
  /\ IF svc.tmp # "none" THEN Goes(c, "u_check") /\ UNCHANGED svc
     ELSE Goes(c, "i_write") /\ svc' = [svc EXCEPT !.tmp = "part", !.tmpBy = c]
  /\ Keep

CreateTemporary(c) ==
  /\ At(c, "i_create")
  /\ IF svc.tmp # "none" THEN Goes(c, "u_check") /\ svc' = WithoutTemporary
     ELSE Goes(c, "i_write") /\ svc' = [svc EXCEPT !.tmp = "part", !.tmpBy = c]
  /\ Keep

(* The file a process writes may have been renamed or removed by another.  *)
WriteTemporary(c) ==
  /\ At(c, "i_write")
  /\ \/ /\ Goes(c, "i_rename") /\ Keep
        /\ svc' = CASE svc.tmpBy = c -> [svc EXCEPT !.tmp = "full", !.tmpBy = None]
                    [] svc.tmpBy # c /\ svc.unitBy = c ->
                         [svc EXCEPT !.unit = "ours", !.unitBy = None]
                    [] OTHER -> svc
     \/ /\ Goes(c, "u_check") /\ Fault
        /\ svc' = [Closed(c) EXCEPT !.tmp = "none", !.tmpBy = None]

(* rename moves what has the name, whoever wrote it; then set_permissions. *)
RenameUnit(c) ==
  /\ At(c, "i_rename")
  /\ \/ /\ svc.tmp # "none" /\ Goes(c, "i_mode") /\ Keep
        /\ svc' = [WithoutTemporary EXCEPT !.unit = IF svc.tmp = "full" THEN "ours" ELSE "part",
                                           !.unitBy = svc.tmpBy]
     \/ /\ Goes(c, "u_check") /\ svc' = WithoutTemporary
        /\ IF svc.tmp = "none" THEN Keep ELSE Fault

SetMode(c) ==
  /\ At(c, "i_mode")
  /\ UNCHANGED svc
  /\ \/ svc.unit # "none" /\ Goes(c, "i_reload") /\ Keep
     \/ Goes(c, "u_check") /\ IF svc.unit = "none" THEN Keep ELSE Fault

(* A command of the manager fails because the manager is away, because the *)
(* file it needs is, or for its own reasons.                               *)
Fails(could) == IF svc.avail /\ could THEN Fault ELSE Keep

daemon_reload(c) ==
  /\ At(c, "i_reload") /\ svc.platform = "systemd"
  /\ UNCHANGED svc
  /\ \/ svc.avail /\ Goes(c, "i_enable") /\ Keep
     \/ Goes(c, "u_check") /\ Fails(TRUE)

(* enable --now; a failure may leave the unit enabled.                     *)
enable_now(c) ==
  /\ At(c, "i_enable") /\ svc.platform = "systemd"
  /\ \/ /\ svc.avail /\ svc.unit # "none" /\ Goes(c, "i_verify") /\ Keep
        /\ svc' = [svc EXCEPT !.reg = TRUE, !.up = TRUE]
     \/ /\ \E reg \in {svc.reg, svc.reg \/ svc.unit # "none"} : svc' = [svc EXCEPT !.reg = reg]
        /\ Goes(c, "u_check") /\ Fails(svc.unit \notin {"none", "part"})

(* launchctl bootstrap, which starts an agent that is not loaded yet, and  *)
(* kickstart.                                                              *)
bootstrap(c) ==
  /\ At(c, "i_reload") /\ svc.platform = "launchd"
  /\ \/ /\ svc.unit # "none" /\ ~svc.reg /\ Goes(c, "i_enable") /\ Keep
        /\ svc' = [svc EXCEPT !.reg = TRUE, !.up = TRUE]
     \/ /\ Goes(c, "u_check") /\ UNCHANGED svc
        /\ Fails(svc.unit \notin {"none", "part"} /\ ~svc.reg)

kickstart(c) ==
  /\ At(c, "i_enable") /\ svc.platform = "launchd"
  /\ \/ svc.reg /\ Goes(c, "i_verify") /\ svc' = [svc EXCEPT !.up = TRUE] /\ Keep
     \/ Goes(c, "u_check") /\ UNCHANGED svc /\ Fails(svc.reg)

(* The second status decides: anything but an installed and running        *)
(* service is rolled back, an error is returned as it is.                  *)
VerifyInstall(c) ==
  /\ At(c, "i_verify")
  /\ IF Refuses THEN Ends(c, "capability")
     ELSE IF running THEN Ends(c, "changed")
     ELSE Goes(c, "u_check")
  /\ UNCHANGED svc /\ Keep

-------------------------------------------------------------------------------
(* uninstall_service.                                                      *)
UninstallStatus(c) ==
  /\ At(c, "u_status")
  /\ IF Refuses \/ ~manager_available THEN Ends(c, "capability")
     ELSE IF svc.unit = "none" THEN Ends(c, "unchanged")
     ELSE Goes(c, "u_check")
  /\ UNCHANGED svc /\ Keep

(* The adapters' uninstall: the manager forgets the unit before its file   *)
(* goes.                                                                   *)
Unlinked == [svc EXCEPT !.unit = "none", !.unitBy = None]

UninstallCheck_FileFirst(c) ==
  /\ At(c, "u_check")
  /\ CASE Refuses -> UninstallErr(c) /\ UNCHANGED svc
       [] svc.unit = "none" -> UninstallOk(c) /\ UNCHANGED svc
       [] OTHER -> Goes(c, "u_disable") /\ svc' = Unlinked
  /\ Keep

UninstallCheck(c) ==
  /\ At(c, "u_check")
  /\ CASE Refuses -> UninstallErr(c)
       [] svc.unit = "none" -> UninstallOk(c)
       [] OTHER -> Goes(c, "u_disable")
  /\ UNCHANGED svc /\ Keep

disable_now(c) ==
  /\ At(c, "u_disable") /\ svc.platform = "systemd"
  /\ \/ /\ svc.avail /\ Goes(c, "u_remove") /\ Keep
        /\ svc' = [svc EXCEPT !.reg = FALSE, !.up = FALSE]
     \/ UninstallErr(c) /\ UNCHANGED svc /\ Fails(svc.unit \notin {"none", "part"})

(* A bootout that cannot be run is an error; one that fails does not       *)
(* matter for an agent that is not loaded.                                 *)
bootout(c) ==
  /\ At(c, "u_disable") /\ svc.platform = "launchd"
  /\ \/ Goes(c, "u_remove") /\ svc' = [svc EXCEPT !.reg = FALSE, !.up = FALSE] /\ Keep
     \/ /\ \/ ~Refuses /\ ~running /\ Goes(c, "u_remove")
           \/ UninstallErr(c)
        /\ UNCHANGED svc /\ Fault

(* remove_file, which needs a file.                                        *)
RemoveUnit(c) ==
  /\ At(c, "u_remove") /\ svc.platform = "systemd"
  /\ \/ svc.unit # "none" /\ Goes(c, "u_reload") /\ svc' = Unlinked /\ Keep
     \/ UninstallErr(c) /\ UNCHANGED svc /\ IF svc.unit = "none" THEN Keep ELSE Fault

RemoveAgent(c) ==
  /\ At(c, "u_remove") /\ svc.platform = "launchd"
  /\ \/ svc.unit # "none" /\ UninstallOk(c) /\ svc' = Unlinked /\ Keep
     \/ UninstallErr(c) /\ UNCHANGED svc /\ IF svc.unit = "none" THEN Keep ELSE Fault

ReloadAfter(c) ==
  /\ At(c, "u_reload")
  /\ UNCHANGED svc
  /\ \/ svc.avail /\ UninstallOk(c) /\ Keep
     \/ UninstallErr(c) /\ Fails(TRUE)

VerifyUninstall(c) ==
  /\ At(c, "u_verify")
  /\ Ends(c, IF svc.unit = "none" THEN "changed" ELSE "capability")
  /\ UNCHANGED svc /\ Keep

ServiceStep(c) ==
  \/ InstallStatus(c) \/ CheckUnit(c) \/ CheckAgent(c) \/ CreateTemporary(c)
  \/ WriteTemporary(c) \/ RenameUnit(c) \/ SetMode(c) \/ daemon_reload(c) \/ bootstrap(c)
  \/ enable_now(c) \/ kickstart(c) \/ VerifyInstall(c)
  \/ UninstallStatus(c) \/ UninstallCheck(c) \/ disable_now(c) \/ bootout(c) \/ RemoveUnit(c)
  \/ RemoveAgent(c) \/ ReloadAfter(c) \/ VerifyUninstall(c)

-------------------------------------------------------------------------------
(* The manager restarts what it was told to keep running; the supervisor   *)
(* fails; the manager goes away with all it runs, and comes back.          *)
Restarted ==
  /\ svc.avail /\ svc.reg /\ ~svc.up
  /\ svc' = [svc EXCEPT !.up = TRUE]
  /\ UNCHANGED <<inv, faults>>

ServiceDown ==
  /\ svc.up
  /\ svc' = [svc EXCEPT !.up = FALSE]
  /\ Fault
  /\ UNCHANGED inv

ManagerGoes ==
  /\ svc.platform = "systemd"
  /\ svc.avail
  /\ svc' = [svc EXCEPT !.avail = FALSE, !.up = FALSE]
  /\ Fault
  /\ UNCHANGED inv

ManagerComes ==
  /\ ~svc.avail
  /\ svc' = [svc EXCEPT !.avail = TRUE]
  /\ UNCHANGED <<inv, faults>>

(* The binary or the state directory moves: what was ours is not any more. *)
Moved ==
  /\ svc.unit = "ours"
  /\ svc' = [svc EXCEPT !.unit = "moved"]
  /\ Fault
  /\ UNCHANGED inv

===============================================================================
